---- MODULE Spec2Model ----
(***************************************************************************)
(* Tournament bracket engine of player-rankings-backend                    *)
(* (app/routers/tournaments.py): tournament creation, group fixtures,      *)
(* knockout seeding, result submission, knockout advancement and reset,    *)
(* over the persisted Player / Tournament / TournamentPlayer / Match /     *)
(* SetScore / TournamentStanding rows.                                     *)
(***************************************************************************)
EXTENDS Integers, Sequences, FiniteSets, TLC

VARIABLES
    players,      \* Player rows: id -> [rating, matches]
    tournament,   \* the Tournament row ([exists |-> FALSE] before creation)
    tplayers,     \* TournamentPlayer rows, in insertion order
    matches,      \* Match rows of the tournament, in id order; sets = SetScore rows
    standings,    \* TournamentStanding rows, in insertion order
    nextId,       \* next auto-increment Match id
    resp,         \* last HTTP response: [op, status]
    nunusual,     \* irregular submissions, resets and forced generations so far
    handlers      \* in-flight submit handlers (concurrent specification only)

vars == <<players, tournament, tplayers, matches, standings, nextId, resp,
          nunusual, handlers>>

----------------------------------------------------------------------------
(* Bounds                                                                  *)

MaxRoster == 16       \* roster sizes tried by createTournament alone
MaxGroups == 4        \* group counts tried by createTournament alone
MaxAdvance == 5       \* players-advancing-per-group tried by createTournament alone
MaxPlayers == 4       \* roster sizes of the tournaments that are played
MaxGroupPlayers == 3  \* roster sizes of the played tournaments that have groups
MaxPlayGroups == 2    \* group counts of the tournaments that are played
MaxUnusual == 1       \* per behaviour: submissions whose ids differ from the
                      \* fixture's, and resets, among the unusual operations
MaxRanked == 3        \* group sizes whose reported ranking is examined
MaxForced == 2        \* per behaviour: unusual operations ending in a forced
                      \* knockout generation

----------------------------------------------------------------------------
(* Values                                                                  *)

None == -1                         \* Python None / SQL NULL
PlayerIds == 1..MaxRoster          \* Player rows that exist
Ghost == MaxRoster + 1             \* a player id with no Player row
DefaultRating == 1500

Min(a, b) == IF a < b THEN a ELSE b

RECURSIVE Range(_)
Range(s) == IF s = <<>> THEN {} ELSE {Head(s)} \cup Range(Tail(s))

RECURSIVE Pow2(_)
Pow2(k) == IF k = 0 THEN 1 ELSE 2 * Pow2(k - 1)

\* Round labels: "Group {n}", "Round of {n}", "Final", "3rd Place Match"
\* the label without the shift to 1-based group numbers
GroupRound_zero_based(g) == [kind |-> "Group", n |-> g]

GroupRound(g) == [kind |-> "Group", n |-> g + 1]
RoundOf(n) == [kind |-> "Round of", n |-> n]
Final == [kind |-> "Final", n |-> 0]
ThirdPlace == [kind |-> "3rd Place Match", n |-> 0]

\* A Match row before the database assigns its id
Match(p1, p2, w, s1, s2, rnd, stg) ==
    [id |-> None, player1_id |-> p1, player2_id |-> p2, winner_id |-> w,
     player1_score |-> s1, player2_score |-> s2, round |-> rnd, stage |-> stg,
     sets |-> <<>>]

\* db.add + flush/commit of new Match rows: ids from the auto-increment counter
AddAll(rows, first) ==
    [i \in 1..Len(rows) |-> [rows[i] EXCEPT !.id = first + i - 1]]

\* Python tuple comparison: a < b, lexicographic
RECURSIVE tuple_less(_, _)
tuple_less(a, b) ==
    IF a = <<>> \/ b = <<>> THEN a = <<>> /\ b # <<>>
    ELSE IF Head(a) # Head(b) THEN Head(a) < Head(b)
    ELSE tuple_less(Tail(a), Tail(b))

\* Python's sorted(s, key=...): stable, ascending; key is a function value
\* mapping each element to its tuple key
RECURSIVE InsertSorted(_, _, _)
InsertSorted(x, s, key) ==
    IF s = <<>> THEN <<x>>
    ELSE IF tuple_less(key[x], key[Head(s)]) THEN <<x>> \o s
    ELSE <<Head(s)>> \o InsertSorted(x, Tail(s), key)

RECURSIVE sorted(_, _)
sorted(s, key) ==
    IF s = <<>> THEN <<>>
    ELSE InsertSorted(s[Len(s)], sorted(SubSeq(s, 1, Len(s) - 1), key), key)

----------------------------------------------------------------------------
(* create_tournament and the fixture generators                            *)

RECURSIVE next_power_of_two_loop(_, _)
next_power_of_two_loop(power, n) ==
    IF power < n THEN next_power_of_two_loop(power * 2, n) ELSE power

next_power_of_two(n) == next_power_of_two_loop(1, n)

\* ceil(log2(n)) for n >= 1
RECURSIVE ceil_log2_from(_, _)
ceil_log2_from(k, n) == IF Pow2(k) >= n THEN k ELSE ceil_log2_from(k + 1, n)

ceil_log2(n) == ceil_log2_from(0, n)

\* ko_size = 2 ** ceil(log2(num_players)); log2(0) raises ValueError
ko_size_of(num_players) == Pow2(ceil_log2(num_players))

RECURSIVE generate_bracket_seeds(_)
generate_bracket_seeds(n) ==
    IF n = 1 THEN <<1>>
    ELSE LET prev == generate_bracket_seeds(n \div 2)
         IN  [i \in 1..(2 * Len(prev)) |->
                 IF i % 2 = 1 THEN prev[(i + 1) \div 2]
                 ELSE n + 1 - prev[i \div 2]]

\* Rows of one group in TournamentPlayer order
GroupMembers(tps, g) ==
    LET sel == SelectSeq(tps, LAMBDA tp : tp.group_number = g)
    IN  [i \in 1..Len(sel) |-> sel[i].player_id]

GroupNumbers(tps) == {tps[i].group_number : i \in 1..Len(tps)}

\* Round robin of one group: for each i the pairs (i, j) for j in
\* range(i + first, len(player_ids)), in loop order
RECURSIVE round_robin_from(_, _, _, _)
round_robin_from(player_ids, group_number, i, first) ==
    IF i > Len(player_ids) THEN <<>>
    ELSE LET js == SelectSeq([k \in 1..Len(player_ids) |-> k],
                             LAMBDA j : j >= i + first)
         IN  [k \in 1..Len(js) |->
                 Match(player_ids[i], player_ids[js[k]], None, None, None,
                       GroupRound(group_number), "group")]
         \o round_robin_from(player_ids, group_number, i + 1, first)

\* the inner loop starting at j = i: every player also meets itself
RoundRobin_from_self(player_ids, group_number) ==
    round_robin_from(player_ids, group_number, 1, 0)

RoundRobin(player_ids, group_number) ==
    round_robin_from(player_ids, group_number, 1, 1)

\* groups are visited in ascending group_number (ORDER BY group_number)
RECURSIVE GroupFixturesFrom(_, _, _)
GroupFixturesFrom(tps, g, maxg) ==
    IF g > maxg THEN <<>>
    ELSE RoundRobin(GroupMembers(tps, g), g)
         \o GroupFixturesFrom(tps, g + 1, maxg)

generate_group_stage_matches(tps) ==
    IF tps = <<>> THEN <<>>
    ELSE GroupFixturesFrom(tps, 0, CHOOSE g \in GroupNumbers(tps) :
                                      \A h \in GroupNumbers(tps) : h <= g)

\* bye_positions: the pair partners of the first num_byes entries of seeds
bye_positions(seeds, num_byes) ==
    { IF (seeds[i] - 1) % 2 = 0 THEN seeds[i] ELSE seeds[i] - 2 :
        i \in 1..num_byes } \cap (0..(Len(seeds) - 1))

\* seeding_to_player: walk seeds in order, skipping bye positions.  guarded
\* is the "if pi < len(players_advancing)" test of the no-groups path; without
\* it running out of players raises IndexError (ok = FALSE).
RECURSIVE fill_seeding(_, _, _, _, _, _)
fill_seeding(seeds, byes, advancing, k, pi, guarded) ==
    IF k > Len(seeds) THEN [ok |-> TRUE, slots |-> [p \in {} |-> None]]
    ELSE LET position == seeds[k] - 1
             isBye == position \in byes
             has == pi <= Len(advancing)
             rest == fill_seeding(seeds, byes, advancing, k + 1,
                                  IF isBye \/ ~has THEN pi ELSE pi + 1, guarded)
         IN  IF ~isBye /\ ~has /\ ~guarded THEN [ok |-> FALSE, slots |-> rest.slots]
             ELSE [ok |-> rest.ok,
                   slots |-> IF isBye THEN (position :> None) @@ rest.slots
                             ELSE IF has THEN (position :> advancing[pi]) @@ rest.slots
                             ELSE rest.slots]

\* seeding_to_player.get(i)
slot_get(slots, i) == IF i \in DOMAIN slots THEN slots[i] ELSE None

\* a bye row created without its winner
bracket_match_bye_undecided(p1, p2, ko_size) ==
    IF p1 # None /\ p2 # None
      THEN <<Match(p1, p2, None, None, None, RoundOf(ko_size), "knockout")>>
    ELSE IF p1 # None
      THEN <<Match(p1, None, None, None, None, RoundOf(ko_size), "knockout")>>
    ELSE IF p2 # None
      THEN <<Match(p2, None, None, None, None, RoundOf(ko_size), "knockout")>>
    ELSE <<>>

\* the Match row of bracket pair (p1, p2); <<>> when both slots are empty
bracket_match(p1, p2, ko_size) ==
    IF p1 # None /\ p2 # None
      THEN <<Match(p1, p2, None, None, None, RoundOf(ko_size), "knockout")>>
    ELSE IF p1 # None
      THEN <<Match(p1, None, p1, 1, 0, RoundOf(ko_size), "knockout")>>
    ELSE IF p2 # None
      THEN <<Match(p2, None, p2, 1, 0, RoundOf(ko_size), "knockout")>>
    ELSE <<>>

RECURSIVE bracket_matches(_, _, _)
bracket_matches(slots, i, ko_size) ==
    IF i >= ko_size THEN <<>>
    ELSE bracket_match(slot_get(slots, i), slot_get(slots, i + 1), ko_size)
         \o bracket_matches(slots, i + 2, ko_size)

\* ratings.get(pid, 0)
rating_of(ps, pid) == IF pid \in DOMAIN ps THEN ps[pid].rating ELSE 0

\* player_to_group[pid]
group_of(tps, pid) ==
    LET rows == SelectSeq(tps, LAMBDA tp : tp.player_id = pid)
    IN  IF rows = <<>> THEN None ELSE rows[Len(rows)].group_number

same_group(tps, p1, p2) ==
    /\ group_of(tps, p1) # None
    /\ group_of(tps, p2) # None
    /\ group_of(tps, p1) = group_of(tps, p2)

\* the first-round clash swap of pair (i, i+1): the first later slot j holding
\* a player of another group takes the place of p2
\* the swap taking the first later filled slot, whatever its player's group
swap_clash_any_later(tps, slots, i, total_slots) ==
    LET p1 == slot_get(slots, i)
        p2 == slot_get(slots, i + 1)
        cand == {j \in (i + 2)..(total_slots - 1) : slot_get(slots, j) # None}
    IN  IF p1 # None /\ p2 # None /\ same_group(tps, p1, p2) /\ cand # {}
        THEN LET j == CHOOSE x \in cand : \A y \in cand : x <= y
             IN  ((i + 1) :> slots[j]) @@ (j :> p2) @@ slots
        ELSE slots

swap_clash(tps, slots, i, total_slots) ==
    LET p1 == slot_get(slots, i)
        p2 == slot_get(slots, i + 1)
        cand == {j \in (i + 2)..(total_slots - 1) :
                    slot_get(slots, j) # None /\ ~same_group(tps, p1, slot_get(slots, j))}
    IN  IF p1 # None /\ p2 # None /\ same_group(tps, p1, p2) /\ cand # {}
        THEN LET j == CHOOSE x \in cand : \A y \in cand : x <= y
             IN  ((i + 1) :> slots[j]) @@ (j :> p2) @@ slots
        ELSE slots

RECURSIVE group_bracket_matches(_, _, _, _)
group_bracket_matches(tps, slots, i, ko_size) ==
    IF i >= ko_size THEN <<>>
    ELSE LET swapped == swap_clash(tps, slots, i, ko_size)
         IN  bracket_match(slot_get(swapped, i), slot_get(swapped, i + 1), ko_size)
             \o group_bracket_matches(tps, swapped, i + 2, ko_size)

\* Result of a generator that raised: nothing is added
Raised == [ok |-> FALSE, rows |-> <<>>]

\* seeding_to_player of a bracket of ko_size slots
seeding_to_player(seeds, ko_size, players_advancing, guarded) ==
    fill_seeding(seeds, bye_positions(seeds, ko_size - Len(players_advancing)),
                 players_advancing, 1, 1, guarded)

\* the first-round rows of the filled bracket; grouped: with the clash swap of
\* the group path
bracket_rows(tps, filled, ko_size, grouped) ==
    IF ~filled.ok THEN Raised
    ELSE [ok |-> TRUE,
          rows |-> IF grouped THEN group_bracket_matches(tps, filled.slots, 0, ko_size)
                   ELSE bracket_matches(filled.slots, 0, ko_size)]

seed_bracket(tps, players_advancing, ko_size, grouped) ==
    bracket_rows(tps,
                 seeding_to_player(generate_bracket_seeds(ko_size), ko_size,
                                   players_advancing, ~grouped),
                 ko_size, grouped)

\* ko_size = 2 ** ceil(log2(num_players)): ValueError for no players
seed_players(tps, players_advancing, grouped) ==
    IF Len(players_advancing) = 0 THEN Raised
    ELSE seed_bracket(tps, players_advancing,
                      ko_size_of(Len(players_advancing)), grouped)

\* Result of a generator: ok = FALSE when it raises; rows = the Match rows added
generate_knockout_stage_matches_without_grp_stage(ps, tps) ==
    LET player_ids == [i \in 1..Len(tps) |-> tps[i].player_id]
    IN  seed_players(tps,
            sorted(player_ids, [pid \in Range(player_ids) |-> <<-rating_of(ps, pid)>>]),
            FALSE)

\* Sum of f[i] over i in 1..n
RECURSIVE SumTo(_, _)
SumTo(f, n) == IF n = 0 THEN 0 ELSE f[n] + SumTo(f, n - 1)

b2i(b) == IF b THEN 1 ELSE 0

\* player_stats[pid] accumulated over the decided group matches and their sets
set_tally(m, pid, asP1, asP2) ==
    SumTo([k \in 1..Len(m.sets) |->
              (IF m.player1_id = pid THEN asP1[m.sets[k]] ELSE 0)
            + (IF m.player2_id = pid THEN asP2[m.sets[k]] ELSE 0)], Len(m.sets))

SetPairs(ms) == UNION {Range(ms[i].sets) : i \in 1..Len(ms)}

player_stats(ms, pid) ==
    LET gm == SelectSeq(ms, LAMBDA m : m.stage = "group" /\ m.winner_id # None)
        sp == SetPairs(gm)
        tot(asP1, asP2) ==
            SumTo([i \in 1..Len(gm) |-> set_tally(gm[i], pid, asP1, asP2)], Len(gm))
    IN  [wins |-> SumTo([i \in 1..Len(gm) |->
                    IF gm[i].winner_id = gm[i].player1_id
                    THEN b2i(gm[i].player1_id = pid)
                    ELSE b2i(gm[i].player2_id = pid)], Len(gm)),
         set_wins    |-> tot([s \in sp |-> b2i(s[1] > s[2])], [s \in sp |-> b2i(s[2] > s[1])]),
         set_losses  |-> tot([s \in sp |-> b2i(s[1] < s[2])], [s \in sp |-> b2i(s[2] < s[1])]),
         points_won  |-> tot([s \in sp |-> s[1]], [s \in sp |-> s[2]]),
         points_lost |-> tot([s \in sp |-> s[2]], [s \in sp |-> s[1]])]

\* sort_key(pid), given stats = player_stats[pid]
sort_key(stats) ==
    <<-stats.wins, -(stats.set_wins - stats.set_losses),
      -(stats.points_won - stats.points_lost)>>

\* the list left in the order it came in
sorted_by_stats_unsorted(pids, ms) == pids

\* sorted(pids, key=sort_key)
sorted_by_stats(pids, ms) ==
    sorted(pids, [pid \in Range(pids) |-> sort_key(player_stats(ms, pid))])

\* group_rankings[g]: the members of group g sorted by sort_key
group_ranking(tps, ms, g) == sorted_by_stats(GroupMembers(tps, g), ms)

group_rankings(tps, ms) ==
    [g \in GroupNumbers(tps) |-> group_ranking(tps, ms, g)]

\* the groups in dict order (ascending: rows are inserted with i % num_groups)
RECURSIVE GroupList(_, _)
GroupList(tps, g) ==
    IF \A h \in GroupNumbers(tps) : h < g THEN <<>>
    ELSE (IF g \in GroupNumbers(tps) THEN <<g>> ELSE <<>>) \o GroupList(tps, g + 1)

\* rank_buckets[i]: the i-th ranked player of every group that has one
rank_bucket(rankings, groups, advance_count, i) ==
    LET has == SelectSeq(groups, LAMBDA g :
                  i < Min(advance_count, Len(rankings[g])))
    IN  [k \in 1..Len(has) |-> rankings[has[k]][i + 1]]

RECURSIVE tiers_from(_, _, _, _, _)
tiers_from(rankings, groups, ms, advance_count, i) ==
    IF i >= advance_count THEN <<>>
    ELSE sorted_by_stats(rank_bucket(rankings, groups, advance_count, i), ms)
         \o tiers_from(rankings, groups, ms, advance_count, i + 1)

generate_knockout_stage_matches(t, ps, tps, ms) ==
    IF t.num_groups = 0
    THEN generate_knockout_stage_matches_without_grp_stage(ps, tps)
    ELSE seed_players(tps,
             tiers_from(group_rankings(tps, ms), GroupList(tps, 0), ms,
                        t.players_advance_per_group, 0),
             TRUE)

\* request handlers of concurrent submissions
Handlers == {1, 2}
Idle == [pc |-> "idle", match_id |-> None, result |-> None, status |-> 0]

NoTournament ==
    [exists |-> FALSE, num_groups |-> 0, knockout_size |-> 0,
     players_advance_per_group |-> 0, num_players |-> 0]

\* The effect of create_tournament(num_groups, players_per_group_advancing,
\* player_ids = 1..n) on the database; status 500 when the seeder raises
\* (the session is then never committed)
created(new_tournament, tps, gen) ==
    [status |-> IF gen.ok THEN 200 ELSE 500,
     tournament |-> new_tournament, tplayers |-> tps, rows |-> gen.rows]

create_tournament(ps, n, num_groups, advancing) ==
    LET new_tournament ==
            [exists |-> TRUE, num_groups |-> num_groups,
             knockout_size |-> next_power_of_two(num_groups * advancing),
             players_advance_per_group |-> advancing, num_players |-> n]
        tps == [i \in 1..n |->
                   [player_id |-> i,
                    group_number |-> IF num_groups > 0 THEN (i - 1) % num_groups ELSE 0]]
    IN  created(new_tournament, tps,
                IF num_groups > 0
                THEN [ok |-> TRUE, rows |-> generate_group_stage_matches(tps)]
                ELSE generate_knockout_stage_matches(new_tournament, ps, tps, <<>>))

----------------------------------------------------------------------------
(* advance_knockout_rounds                                                 *)

\* round_sort_key(name): int(name.split()[-1]) for "Round of {n}"
round_sort_key(name) ==
    IF name.kind = "Final" THEN 1
    ELSE IF name.kind = "3rd Place Match" THEN 0
    ELSE name.n

\* position of a label in ORDER BY Match.round among labels of different kinds
\* ("3rd Place Match" < "Final" < "Group .." < "Round of ..")
kind_order(name) ==
    CASE name.kind = "3rd Place Match" -> 0
      [] name.kind = "Final" -> 1
      [] name.kind = "Group" -> 2
      [] OTHER -> 3

\* the last element of sorted(names, key=round_sort_key, reverse=True): the
\* smallest key; the sort is stable, so among equal keys the label that comes
\* last in the query order
last_round_name_of(names) ==
    CHOOSE r \in names : \A q \in names :
        \/ round_sort_key(r) < round_sort_key(q)
        \/ round_sort_key(r) = round_sort_key(q) /\ kind_order(r) >= kind_order(q)

loser_of_as_winner(m) == m.winner_id

loser_of(m) == IF m.winner_id # m.player1_id THEN m.player1_id ELSE m.player2_id

Standing(pid, pos) == [player_id |-> pid, position |-> pos]

\* the "Final round? Save standings" block; <<>> when it waits for the
\* 3rd place match.  position4 is the position written for the loser of the
\* 3rd place match.
standings_rows(ms, current_round_matches, last_round_matches, position4) ==
    LET final_match == current_round_matches[1]
        first == final_match.winner_id
        second == loser_of(final_match)
        third_rows == SelectSeq(ms, LAMBDA m : m.round = ThirdPlace)
        semis == SelectSeq(last_round_matches,
                           LAMBDA m : m.player1_id # None /\ m.player2_id # None)
        third == IF third_rows # <<>> THEN third_rows[1].winner_id
                 ELSE IF semis # <<>> /\ semis[1].winner_id # None
                      THEN loser_of(semis[1]) ELSE None
        fourth == IF third_rows # <<>> THEN loser_of(third_rows[1]) ELSE None
    IN  IF third_rows # <<>> /\ third_rows[1].winner_id = None THEN <<>>
        ELSE <<Standing(first, 1), Standing(second, 2)>>
             \o (IF third # None THEN <<Standing(third, 3)>> ELSE <<>>)
             \o (IF fourth # None THEN <<Standing(fourth, position4)>> ELSE <<>>)

\* final_standings writing the loser of the 3rd place match at position 3
final_standings_fourth_as_third(ms, current_round_matches, last_round_matches) ==
    standings_rows(ms, current_round_matches, last_round_matches, 3)

final_standings(ms, current_round_matches, last_round_matches) ==
    standings_rows(ms, current_round_matches, last_round_matches, 4)

\* the "Advance to next round" block
RECURSIVE next_round_pairs(_, _, _)
next_round_pairs(winners, i, next_round_name) ==
    IF i > Len(winners) THEN <<>>
    ELSE LET p1 == winners[i]
             p2 == IF i + 1 <= Len(winners) THEN winners[i + 1] ELSE None
         IN  <<Match(p1, p2, IF p2 = None THEN p1 ELSE None,
                     IF p2 = None THEN 1 ELSE None,
                     IF p2 = None THEN 0 ELSE None, next_round_name, "knockout")>>
             \o next_round_pairs(winners, i + 2, next_round_name)

Nothing == [rows |-> <<>>, standings |-> <<>>]

\* any(m.winner_id is None for m in ...) never seeing an undecided match
any_undecided_never(rs) == FALSE

\* any(m.winner_id is None for m in rs)
any_undecided(rs) == \E i \in 1..Len(rs) : rs[i].winner_id = None

\* advance_knockout_rounds past its "Already finalized?" guard: the Match rows
\* and TournamentStanding rows it adds, given the Match rows ms (in id order)
advance_rounds(ms) ==
    LET ko == SelectSeq(ms, LAMBDA m : m.stage = "knockout")
        bracket == SelectSeq(ko, LAMBDA m : m.round # ThirdPlace)
        names == {bracket[i].round : i \in 1..Len(bracket)}
    IN  IF ko = <<>> \/ names = {} THEN Nothing
        ELSE
        LET current_round_name == last_round_name_of(names)
            current_round_matches ==
                SelectSeq(bracket, LAMBDA m : m.round = current_round_name)
            earlier == names \ {current_round_name}
            last_round_matches ==
                IF earlier = {} THEN <<>>
                ELSE SelectSeq(bracket, LAMBDA m : m.round = last_round_name_of(earlier))
        IN  IF any_undecided(current_round_matches) \/ any_undecided(last_round_matches)
            THEN Nothing
            ELSE
            LET completed == SelectSeq(current_round_matches,
                                       LAMBDA m : m.winner_id # None)
                semi_losers == [i \in 1..Len(completed) |-> loser_of(completed[i])]
                third_exists == \E i \in 1..Len(ms) : ms[i].round = ThirdPlace
                is_semi == current_round_name = RoundOf(4)
                third_match ==
                    IF is_semi /\ Len(completed) = 2
                       /\ None \notin Range(semi_losers) /\ ~third_exists
                    THEN <<Match(semi_losers[1], semi_losers[2], None, None, None,
                                 ThirdPlace, "knockout")>>
                    ELSE <<>>
                third_standing ==
                    IF is_semi /\ Len(completed) = 1 /\ semi_losers[1] # None
                    THEN <<Standing(semi_losers[1], 3)>>
                    ELSE <<>>
                winners == [i \in 1..Len(completed) |-> completed[i].winner_id]
                next_round_size == Len(winners)
                next_round_name ==
                    IF next_round_size = 2 /\ current_round_name = RoundOf(4)
                    THEN Final ELSE RoundOf(next_round_size)
                existing_next_round ==
                    \E i \in 1..Len(ko) : ko[i].round = next_round_name
            IN  IF Len(winners) = 1 /\ current_round_name = Final
                THEN [rows |-> <<>>,
                      standings |-> final_standings(ms, current_round_matches,
                                                   last_round_matches)]
                ELSE IF next_round_size < 2 \/ existing_next_round
                THEN [rows |-> third_match, standings |-> third_standing]
                ELSE [rows |-> third_match
                               \o next_round_pairs(winners, 1, next_round_name),
                      standings |-> third_standing]

\* advance_knockout_rounds without the "Already finalized?" guard
advance_without_finalized_guard(ms, st) == advance_rounds(ms)

\* The rows one invocation adds, given the Match rows ms and the
\* TournamentStanding rows st: nothing once any standing exists
advance_knockout_rounds(ms, st) ==
    IF st # <<>> THEN Nothing ELSE advance_rounds(ms)

----------------------------------------------------------------------------
(* Initial state and the createTournament operation                        *)

\* Player rows present before any tournament: default ratings, or ratings
\* rising with the id (so that seeding by rating reorders the roster)
RatingProfiles ==
    { [p \in PlayerIds |-> DefaultRating], [p \in PlayerIds |-> DefaultRating + 10 * p] }

InitRows ==
    /\ tournament = NoTournament
    /\ tplayers = <<>>
    /\ matches = <<>>
    /\ standings = <<>>
    /\ nextId = 1
    /\ resp = [op |-> "none", status |-> 0]
    /\ nunusual = 0
    /\ handlers = [h \in Handlers |-> Idle]

\* every rating profile (createTournament alone)
InitAny ==
    /\ \E prof \in RatingProfiles :
          players = [p \in PlayerIds |-> [rating |-> prof[p], matches |-> 0]]
    /\ InitRows

\* ratings rising with the id: the seeder has to reorder the roster
Init ==
    /\ players = [p \in PlayerIds |-> [rating |-> DefaultRating + 10 * p, matches |-> 0]]
    /\ InitRows

CreateTournament(n, num_groups, advancing) ==
    /\ ~tournament.exists
    /\ \E r \in {create_tournament(players, n, num_groups, advancing)} :
           /\ resp' = [op |-> "create", status |-> r.status]
           /\ IF r.status = 200
              THEN /\ tournament' = r.tournament
                   /\ tplayers' = r.tplayers
                   /\ matches' = AddAll(r.rows, nextId)
                   /\ nextId' = nextId + Len(r.rows)
              ELSE UNCHANGED <<tournament, tplayers, matches, nextId>>
    /\ UNCHANGED <<players, standings, nunusual, handlers>>

----------------------------------------------------------------------------
(* submit_tournament_match_result                                          *)

\* app/elo.py: def calculate_elo(winner_elo, loser_elo)
calculate_elo_params == 2
\* tournaments.py: calculate_elo(player1.rating, player2.rating, outcome1, player1.matches or 0)
calculate_elo_call_args == 4

\* first transaction of the handler: UPDATE of the Match row with the ids,
\* winner and scores of the request, replacement of its SetScore rows, commit
write_result(ms, match_id, result) ==
    [i \in 1..Len(ms) |->
        IF ms[i].id = match_id
        THEN [ms[i] EXCEPT !.player1_id = result.player1_id,
                           !.player2_id = result.player2_id,
                           !.winner_id = result.winner_id,
                           !.player1_score = result.player1_score,
                           !.player2_score = result.player2_score,
                           !.sets = result.sets]
        ELSE ms[i]]

\* what follows the first commit: the Player lookup, the two validations and
\* the rating computation, which calls the two-parameter calculate_elo of
\* app/elo.py with four arguments (TypeError, status 500) so that the rating
\* update and the stage transition behind it are never reached
after_write_status(ps, result) ==
    LET found == {result.player1_id, result.player2_id} \cap DOMAIN ps
    IN  IF Cardinality(found) < 2 THEN 400
        ELSE IF result.winner_id \notin found THEN 400
        ELSE IF calculate_elo_call_args # calculate_elo_params THEN 500
        ELSE 200

\* the whole handler run to completion
submit_tournament_match_result(ps, ms, match_id, result) ==
    IF \A i \in 1..Len(ms) : ms[i].id # match_id
    THEN [status |-> 404, matches |-> ms]
    ELSE [status |-> after_write_status(ps, result),
          matches |-> write_result(ms, match_id, result)]

\* Request bodies tried against fixture m.  Scores and set scores follow the
\* winner: a 2-0 win for the first listed player or a 1-2 loss.
Payload(p1, p2, w) ==
    [player1_id |-> p1, player2_id |-> p2, winner_id |-> w,
     player1_score |-> IF w = p1 THEN 2 ELSE 1,
     player2_score |-> IF w = p1 THEN 0 ELSE 2,
     sets |-> IF w = p1 THEN << <<11, 5>>, <<11, 9>> >>
              ELSE << <<11, 8>>, <<7, 11>>, <<4, 11>> >>]

Roster == {tplayers[i].player_id : i \in 1..Len(tplayers)}

Regular(m) ==
    IF m.player2_id = None THEN {}
    ELSE {Payload(m.player1_id, m.player2_id, w) : w \in {m.player1_id, m.player2_id}}

Irregular(m) ==
    LET a == m.player1_id
        b == m.player2_id
        others == Roster \ {a, b}
    IN  {Payload(a, a, a), Payload(a, Ghost, a)}
        \cup (IF b = None THEN {} ELSE {Payload(b, a, a)})
        \cup (IF b = None \/ others = {} THEN {}
              ELSE {Payload(a, b, CHOOSE o \in others : \A q \in others : o <= q)})

SubmitMatchResult(match_id, result) ==
    /\ tournament.exists
    /\ \E r \in {submit_tournament_match_result(players, matches, match_id, result)} :
           /\ matches' = r.matches
           /\ resp' = [op |-> "submit", status |-> r.status]
    /\ UNCHANGED <<players, tournament, tplayers, standings, nextId,
                   nunusual, handlers>>

SubmitRegular ==
    \E i \in 1..Len(matches) : \E result \in Regular(matches[i]) :
        SubmitMatchResult(matches[i].id, result)

SubmitIrregular ==
    /\ nunusual < MaxUnusual
    /\ \E i \in 1..Len(matches) : \E result \in Irregular(matches[i]) :
       \E r \in {submit_tournament_match_result(players, matches, matches[i].id, result)} :
          /\ matches' = r.matches
          /\ resp' = [op |-> "submit", status |-> r.status]
    /\ tournament.exists
    /\ nunusual' = nunusual + 1
    /\ UNCHANGED <<players, tournament, tplayers, standings, nextId, handlers>>

\* a result for a match id that does not exist
SubmitUnknown ==
    /\ tournament.exists
    /\ resp' = [op |-> "submit",
                status |-> submit_tournament_match_result(
                               players, matches, nextId, Payload(1, 2, 1)).status]
    /\ UNCHANGED <<players, tournament, tplayers, matches, standings, nextId,
                   nunusual, handlers>>

----------------------------------------------------------------------------
(* trigger_knockout_advancement, reset_tournament, force_generate_ko       *)

AdvanceKnockout ==
    /\ tournament.exists
    /\ \E r \in {advance_knockout_rounds(matches, standings)} :
           /\ matches' = matches \o AddAll(r.rows, nextId)
           /\ nextId' = nextId + Len(r.rows)
           /\ standings' = standings \o r.standings
    /\ resp' = [op |-> "advance", status |-> 200]
    /\ UNCHANGED <<players, tournament, tplayers, nunusual, handlers>>

\* reset_tournament: the deletes and the regeneration commit together; when the
\* generator raises nothing is committed
reset_tournament_always_groups(t, ps, tps) ==
    [ok |-> TRUE, rows |-> generate_group_stage_matches(tps)]

reset_tournament(t, ps, tps) ==
    IF t.num_groups > 0
    THEN [ok |-> TRUE, rows |-> generate_group_stage_matches(tps)]
    ELSE generate_knockout_stage_matches(t, ps, tps, <<>>)

ResetTournament ==
    /\ tournament.exists
    /\ nunusual < MaxUnusual
    /\ nunusual' = nunusual + 1
    /\ \E r \in {reset_tournament(tournament, players, tplayers)} :
           IF r.ok
           THEN /\ matches' = AddAll(r.rows, nextId)
                /\ nextId' = nextId + Len(r.rows)
                /\ standings' = <<>>
                /\ resp' = [op |-> "reset", status |-> 200]
           ELSE /\ UNCHANGED <<matches, nextId, standings>>
                /\ resp' = [op |-> "reset", status |-> 500]
    /\ UNCHANGED <<players, tournament, tplayers, handlers>>

ForceGenerateKnockout ==
    /\ tournament.exists
    /\ nunusual < MaxForced
    /\ nunusual' = nunusual + 1
    /\ \E r \in {generate_knockout_stage_matches(tournament, players, tplayers, matches)} :
           IF r.ok
           THEN /\ matches' = matches \o AddAll(r.rows, nextId)
                /\ nextId' = nextId + Len(r.rows)
                /\ resp' = [op |-> "generate-ko", status |-> 200]
           ELSE /\ UNCHANGED <<matches, nextId>>
                /\ resp' = [op |-> "generate-ko", status |-> 500]
    /\ UNCHANGED <<players, tournament, tplayers, standings, handlers>>

\* the tournaments that are played: no groups, or groups with 1..2 advancing
CreatePlayed ==
    \/ \E n \in 1..MaxPlayers : CreateTournament(n, 0, 0)
    \/ \E n \in 1..MaxGroupPlayers, g \in 1..MaxPlayGroups, a \in 1..2 :
          CreateTournament(n, g, a)

\* create, submit and advance
NextPlay ==
    \/ CreatePlayed
    \/ SubmitRegular
    \/ SubmitIrregular
    \/ SubmitUnknown
    \/ AdvanceKnockout

SpecPlay == Init /\ [][NextPlay]_vars

\* create, submit, advance and reset
Next ==
    \/ CreatePlayed
    \/ SubmitRegular
    \/ SubmitIrregular
    \/ SubmitUnknown
    \/ AdvanceKnockout
    \/ ResetTournament

Spec == Init /\ [][Next]_vars

\* the operator recovery hooks (reset, forced knockout generation) among
\* regular submissions and advances
NextAll ==
    \/ CreatePlayed
    \/ SubmitRegular
    \/ AdvanceKnockout
    \/ ResetTournament
    \/ ForceGenerateKnockout

SpecAll == Init /\ [][NextAll]_vars

----------------------------------------------------------------------------
(* Two concurrent submit_tournament_match_result handlers on two different *)
(* matches of one knockout round, interleaved at their commits             *)

\* lines 858-902: read the match, write the result, commit
HandlerWrite(h) ==
    /\ tournament.exists
    /\ handlers[h].pc = "idle"
    /\ \E i \in 1..Len(matches) : \E result \in Regular(matches[i]) \cup Irregular(matches[i]) :
          /\ matches[i].stage = "knockout"
          /\ \A g \in Handlers \ {h} : handlers[g].pc # "idle" =>
                \E k \in 1..Len(matches) :
                    /\ matches[k].id = handlers[g].match_id
                    /\ k # i
                    /\ matches[k].round = matches[i].round
          /\ matches' = write_result(matches, matches[i].id, result)
          /\ handlers' = [handlers EXCEPT ![h] =
                 [pc |-> "written", match_id |-> matches[i].id,
                  result |-> result, status |-> 0]]
    /\ UNCHANGED <<players, tournament, tplayers, standings, nextId, resp, nunusual>>

\* lines 905-965: the Player lookup, the validations and the rating
\* computation, which ends the handler with an error status
HandlerFinish(h) ==
    /\ handlers[h].pc = "written"
    /\ \E st \in {after_write_status(players, handlers[h].result)} :
           /\ handlers' = [handlers EXCEPT ![h].pc = "done", ![h].status = st]
           /\ resp' = [op |-> "submit", status |-> st]
    /\ UNCHANGED <<players, tournament, tplayers, matches, standings, nextId, nunusual>>

NextConcurrent ==
    \/ \E n \in 2..MaxPlayers : CreateTournament(n, 0, 0)
    \/ \E h \in Handlers : HandlerWrite(h)
    \/ \E h \in Handlers : HandlerFinish(h)

SpecConcurrent == InitAny /\ [][NextConcurrent]_vars

\* createTournament alone, over every configuration within the bounds
CreateAny ==
    \E n \in 0..MaxRoster, g \in 0..MaxGroups, a \in 0..MaxAdvance :
        CreateTournament(n, g, a)

SpecCreate == InitAny /\ [][CreateAny]_vars

----------------------------------------------------------------------------------------------------------------------------------------------------
(* get_tournament_details: the reported group rankings                     *)

\* player_stats of the details endpoint: the same accumulation over the
\* decided group matches as the seeder's
details_player_stats(ms, pid) == player_stats(ms, pid)

\* group_matrix["results"].get(f"{a}-{b}"): the entry of the last group row
\* that lists a first and b second
matrix_result(ms, a, b) ==
    SelectSeq(ms, LAMBDA m :
        m.stage = "group" /\ m.player1_id = a /\ m.player2_id = b)

\* (results.get("a-b") or results.get("b-a"))["winner"]; None without entry
h2h_winner_of(ab, ba) ==
    IF ab # <<>> THEN ab[Len(ab)].winner_id
    ELSE IF ba # <<>> THEN ba[Len(ba)].winner_id
    ELSE None

h2h_winner(ms, a, b) == h2h_winner_of(matrix_result(ms, a, b), matrix_result(ms, b, a))

\* ranked[i], ranked[i + 1] = ranked[i + 1], ranked[i]   (i counted from 1)
swap_adjacent(ranked, i) ==
    [k \in 1..Len(ranked) |->
        IF k = i THEN ranked[i + 1] ELSE IF k = i + 1 THEN ranked[i] ELSE ranked[k]]

\* the single pass "while i < len(ranked) - 1": neighbours with equal wins are
\* swapped when the lower one won their match
RECURSIVE h2h_pass(_, _, _)
h2h_pass(ranked, i, ms) ==
    IF i >= Len(ranked) THEN ranked
    ELSE h2h_pass(
            IF /\ details_player_stats(ms, ranked[i]).wins
                    = details_player_stats(ms, ranked[i + 1]).wins
               /\ h2h_winner(ms, ranked[i], ranked[i + 1]) = ranked[i + 1]
            THEN swap_adjacent(ranked, i) ELSE ranked,
            i + 1, ms)

\* group_rankings[group_num] of the details response
details_group_ranking(tps, ms, g) ==
    h2h_pass(sorted(GroupMembers(tps, g),
                    [pid \in Range(GroupMembers(tps, g)) |->
                        sort_key(details_player_stats(ms, pid))]),
             1, ms)

details_group_rankings(tps, ms) ==
    [g \in GroupNumbers(tps) |-> details_group_ranking(tps, ms, g)]

\* Set scores tried for the ranking: the loser's points in each of two sets
SetOptions == {<<11, 9>>, <<11, 8>>, <<11, 7>>}

\* a 2-0 result for winner w of fixture (p1, p2), both sets ending as s
ScoredPayload(p1, p2, w, s) ==
    [player1_id |-> p1, player2_id |-> p2, winner_id |-> w,
     player1_score |-> IF w = p1 THEN 2 ELSE 0,
     player2_score |-> IF w = p1 THEN 0 ELSE 2,
     sets |-> IF w = p1 THEN <<s, s>> ELSE << <<s[2], s[1]>>, <<s[2], s[1]>> >>]

Scored(m) ==
    IF m.player2_id = None THEN {}
    ELSE {ScoredPayload(m.player1_id, m.player2_id, w, s) :
             w \in {m.player1_id, m.player2_id}, s \in SetOptions}

SubmitScored ==
    \E i \in 1..Len(matches) : \E result \in Scored(matches[i]) :
        SubmitMatchResult(matches[i].id, result)

\* GET /{tournament_id}/details: reads only; the response carries the rankings
GetTournamentDetails ==
    /\ tournament.exists
    /\ resp' = [op |-> "details", status |-> 200,
                rankings |-> details_group_rankings(tplayers, matches)]
    /\ UNCHANGED <<players, tournament, tplayers, matches, standings, nextId,
                   nunusual, handlers>>

\* one group, its results submitted with varying scores, and the details read
NextDetails ==
    \/ \E n \in 2..MaxRanked : CreateTournament(n, 1, 1)
    \/ SubmitScored
    \/ GetTournamentDetails

SpecDetails == Init /\ [][NextDetails]_vars

----------------------------------------------------------------------------
(* Scenario B: 8 players in 2 groups of 4, 2 advancing per group           *)

Undecided == {i \in 1..Len(matches) : matches[i].winner_id = None}

\* the group results arrive in fixture order, the knockout results in any
\* order; every match receives one result
SubmitNext ==
    \E i \in Undecided : \E result \in Regular(matches[i]) :
        /\ matches[i].stage = "group" => \A j \in Undecided : i <= j
        /\ SubmitMatchResult(matches[i].id, result)

\* the operator calls generate-ko once the group stage is decided and no
\* knockout match exists
GenerateKnockoutAfterGroups ==
    /\ Undecided = {}
    /\ \A i \in 1..Len(matches) : matches[i].stage = "group"
    /\ ForceGenerateKnockout

\* the operator calls advance-knockout on a knockout stage
AdvanceKnockoutStage ==
    /\ \E i \in 1..Len(matches) : matches[i].stage = "knockout"
    /\ AdvanceKnockout

NextScenarioB ==
    \/ CreateTournament(8, 2, 2)
    \/ SubmitNext
    \/ GenerateKnockoutAfterGroups
    \/ AdvanceKnockoutStage

SpecScenarioB == Init /\ [][NextScenarioB]_vars

----
(* Properties                                                              *)

RowsOf(rnd) == SelectSeq(matches, LAMBDA m : m.round = rnd)

Participants(m) == {m.player1_id, m.player2_id} \ {None}

\* C1: advance idempotence.  In every state reached by create, submit and
\* advance in which the last operation was an advance (no result written
\* since), one more advance adds no Match row and no Standing row.
C1_AdvanceIdempotent ==
    resp.op = "advance" => advance_knockout_rounds(matches, standings) = Nothing

\* an advance has created the 3rd place match and the Final
C1_Witness ==
    /\ resp.op = "advance"
    /\ RowsOf(Final) # <<>>
    /\ RowsOf(ThirdPlace) # <<>>
    /\ standings = <<>>

\* C2: two concurrent submissions for two different matches of one knockout
\* round leave exactly one set of next-round matches (half the round, rounded
\* up) and at most one 3rd place match, once both handlers have finished (their
\* requests having passed validation) and the round is decided.
C2_OneNextRound ==
    LET hit == {i \in 1..Len(matches) :
                   \E h \in Handlers : handlers[h].match_id = matches[i].id}
        round_rows(i) == SelectSeq(matches, LAMBDA m : m.round = matches[i].round)
        later(i) == SelectSeq(matches, LAMBDA m :
                        /\ m.stage = "knockout"
                        /\ m.round \notin {matches[i].round, ThirdPlace})
    IN  \A i \in hit :
           (/\ \A h \in Handlers : handlers[h].pc = "done" /\ handlers[h].status # 400
            /\ \A k \in 1..Len(round_rows(i)) : round_rows(i)[k].winner_id # None)
           => /\ Len(later(i)) = (Len(round_rows(i)) + 1) \div 2
              /\ Len(RowsOf(ThirdPlace)) <= 1

OnePerPosition(st) ==
    \A i, j \in 1..Len(st) :
        /\ st[i].position \in 1..4
        /\ st[i].position = st[j].position => i = j

\* C3: without reset, a tournament has at most one Standing row per position
\* 1..4; once a Standing row exists the rows never change, and a later advance
\* (also after a re-submitted result) changes no Match row either.
C3_StandingsWrittenOnce ==
    [][ /\ OnePerPosition(standings')
        /\ standings # <<>> =>
              /\ standings' = standings
              /\ resp'.op = "advance" => matches' = matches ]_vars

\* an advance ran after the Final was re-submitted with the other winner
C3_Witness ==
    /\ resp.op = "advance"
    /\ standings # <<>>
    /\ \E i \in 1..Len(matches), k \in 1..Len(standings) :
          /\ matches[i].round = Final
          /\ standings[k].position = 1
          /\ matches[i].winner_id # standings[k].player_id

\* C4: a submission rejected for validation (status 400: winner not one of the
\* two listed players, or a listed player missing, player1 = player2 included)
\* leaves every Match, SetScore and Player row as it was.
C4_RejectedLeavesRowsUnchanged ==
    [][ (resp'.op = "submit" /\ resp'.status = 400)
           => (matches' = matches /\ players' = players) ]_vars

\* C5: a submission for an existing match, listing its two existing distinct
\* players and a winner among them, completes without error (status 200); the
\* match is then decided, each participant has played one more match, and the
\* advancement step has run (a further advance has nothing to add).
C5_SubmitCompletes ==
    [][ \A i \in 1..Len(matches) : \A result \in Regular(matches[i]) :
           SubmitMatchResult(matches[i].id, result) =>
              /\ resp'.status = 200
              /\ matches'[i].winner_id # None
              /\ \A p \in {result.player1_id, result.player2_id} :
                    players'[p].matches = players[p].matches + 1
              /\ advance_knockout_rounds(matches', standings') = Nothing ]_vars

IsPowerOfTwo(x) == \E k \in 0..10 : x = Pow2(k)

SmallestPowerOfTwoAtLeast(x, n) ==
    /\ IsPowerOfTwo(x)
    /\ x >= n
    /\ \A y \in 1..(x - 1) : IsPowerOfTwo(y) => y < n

Entrants(rows) == UNION {Participants(rows[i]) : i \in 1..Len(rows)}

\* C6: after an accepted createTournament (with and without groups) the stored
\* knockout size is the smallest power of two >= the number of players who
\* enter the knockout stage, and it is the N of the "Round of N" label the
\* seeder gives the opening round.
C6_KnockoutSizeIsBracketSize ==
    tournament.exists =>
        LET gen == generate_knockout_stage_matches(tournament, players, tplayers, matches)
        IN  (gen.ok /\ gen.rows # <<>>) =>
               /\ SmallestPowerOfTwoAtLeast(tournament.knockout_size,
                                            Cardinality(Entrants(gen.rows)))
               /\ gen.rows[1].round = RoundOf(tournament.knockout_size)

\* size of group k when n players are dealt to g groups
GroupSize(n, g, k) == Cardinality({i \in 0..(n - 1) : i % g = k})

\* the Tournament row after the step is that of configuration (n, g, a)
CreatedAs(n, g, a) ==
    /\ tournament'.num_players = n
    /\ tournament'.num_groups = g
    /\ tournament'.players_advance_per_group = a

\* C7: createTournament with groups and more players advancing per group than
\* some group holds, or with a single player in every group, is rejected with
\* an error (400 or 422) and creates no Tournament, TournamentPlayer or Match
\* row.
C7_InvalidGroupsRejected ==
    [][ \A n \in 0..MaxRoster, g \in 1..MaxGroups, a \in 0..MaxAdvance :
           (/\ \/ \E k \in 0..(g - 1) : a > GroupSize(n, g, k)
               \/ \A k \in 0..(g - 1) : GroupSize(n, g, k) = 1
            /\ tournament'.exists => CreatedAs(n, g, a)
            /\ CreateTournament(n, g, a))
           => /\ resp'.status \in {400, 422}
              /\ UNCHANGED <<tournament, tplayers, matches>> ]_vars

\* the group fixtures of n players in g groups: one group-stage row for every
\* unordered pair of members of a group, labelled with the group, and no other row
GroupFixtures(ms, n, g) ==
    LET pairs == {pq \in (1..n) \X (1..n) :
                     pq[1] < pq[2] /\ (pq[1] - 1) % g = (pq[2] - 1) % g}
    IN  /\ Len(ms) = Cardinality(pairs)
        /\ \A pq \in pairs : \E i \in 1..Len(ms) :
              /\ Participants(ms[i]) = {pq[1], pq[2]}
              /\ ms[i].stage = "group"
              /\ ms[i].round = GroupRound((pq[1] - 1) % g)

\* the complete opening knockout round of n players: half the bracket size in
\* rows of one "Round of N", every player in exactly one of them
OpeningRound(ms, n) ==
    \E size \in 1..(2 * n) :
        /\ SmallestPowerOfTwoAtLeast(size, n)
        /\ Len(ms) = size \div 2
        /\ \A i \in 1..Len(ms) : ms[i].stage = "knockout" /\ ms[i].round = RoundOf(size)
        /\ \A p \in 1..n : Cardinality({i \in 1..Len(ms) : p \in Participants(ms[i])}) = 1

C9_ByesAreDecided ==
    \A i \in 1..Len(matches) :
        (matches[i].stage = "knockout" /\ matches[i].player2_id = None)
           => matches[i].winner_id = matches[i].player1_id

\* the seeder's bye rows of a one-player bracket, generated three times, have
\* been advanced: the advancer paired two winners and gave the third a bye
C9_Witness ==
    \E i, j \in 1..Len(matches) :
        /\ matches[i].round = RoundOf(1)
        /\ matches[i].player2_id = None
        /\ matches[j].round = RoundOf(3)
        /\ matches[j].player2_id = None
        /\ matches[j].winner_id = matches[i].player1_id

\* C10: no Match row has player1 equal to player2, in every state reached by
\* create, submit, advance and reset.
C10_NoSelfPairing ==
    \A i \in 1..Len(matches) : matches[i].player1_id # matches[i].player2_id

\* the bracket rounds that exist: the knockout rounds but the 3rd place match
BracketRounds ==
    {matches[i].round : i \in {k \in 1..Len(matches) :
        matches[k].stage = "knockout" /\ matches[k].round # ThirdPlace}}

\* the round played before round r: the existing "Round of k" with the
\* smallest k above r's own size (any "Round of" round for the Final)
RoundBefore(r) ==
    LET earlier == {q \in BracketRounds :
                       /\ q.kind = "Round of"
                       /\ r.kind = "Round of" => q.n > r.n}
    IN  IF earlier = {} THEN {}
        ELSE {CHOOSE q \in earlier : \A o \in earlier : q.n <= o.n}

\* C11: in every state reached by create, submit and advance every bracket
\* round that exists is complete: the opening "Round of N" has N/2 rows, every
\* later round half the rows of the round before it (rounded up), and "Final"
\* has one row.
C11_RoundsComplete ==
    \A r \in BracketRounds :
        /\ r.kind = "Final" => Len(RowsOf(r)) = 1
        /\ IF RoundBefore(r) = {}
           THEN r.kind = "Round of" /\ 2 * Len(RowsOf(r)) = r.n
           ELSE \A q \in RoundBefore(r) :
                    Len(RowsOf(r)) = (Len(RowsOf(q)) + 1) \div 2

\* the members of group k, from the TournamentPlayer rows
MembersOf(k) ==
    {tplayers[i].player_id : i \in {j \in 1..Len(tplayers) : tplayers[j].group_number = k}}

\* C12: after createTournament with groups, every group of n players has
\* exactly n*(n-1)/2 rows of stage "group" labelled "Group {g+1}": one row for
\* every unordered pair of its members, no pair twice, no player against
\* itself (groups of 0 or 1 players: no row), created without error; and there
\* is no other row.
C12_GroupRoundRobin ==
    (tournament.exists /\ tournament.num_groups > 0 /\ resp.op = "create") =>
        /\ resp.status = 200
        /\ \A i \in 1..Len(matches) :
              /\ matches[i].stage = "group"
              /\ matches[i].round.kind = "Group"
              /\ matches[i].round.n \in 1..tournament.num_groups
        /\ \A k \in 0..(tournament.num_groups - 1) :
              LET rows == RowsOf(GroupRound(k))
                  n == Cardinality(MembersOf(k))
              IN  /\ 2 * Len(rows) = n * (n - 1)
                  /\ \A i \in 1..Len(rows) :
                        /\ rows[i].player1_id # rows[i].player2_id
                        /\ Participants(rows[i]) \subseteq MembersOf(k)
                        /\ Cardinality(Participants(rows[i])) = 2
                  /\ \A i, j \in 1..Len(rows) :
                        Participants(rows[i]) = Participants(rows[j]) => i = j

\* 16 players in 4 groups: 6 rows for each group of 4
C12_Witness ==
    /\ resp = [op |-> "create", status |-> 200]
    /\ tournament.num_groups = 4
    /\ tournament.num_players = 16
    /\ Len(RowsOf(GroupRound(3))) = 6
    /\ Len(matches) = 24

\* position of player p in a ranking (0 when absent)
PositionIn(ranking, p) ==
    IF p \in Range(ranking) THEN CHOOSE i \in 1..Len(ranking) : ranking[i] = p ELSE 0

\* every group row of group g is decided
GroupDecided(g) ==
    \A i \in 1..Len(matches) :
        (matches[i].stage = "group" /\ matches[i].round = GroupRound(g))
           => matches[i].winner_id # None

\* a beat b in their group match
BeatInGroup(a, b) ==
    \E i \in 1..Len(matches) :
        /\ matches[i].stage = "group"
        /\ Participants(matches[i]) = {a, b}
        /\ matches[i].winner_id = a

\* C13: in the rankings of a details response, for a group whose round robin
\* is complete, whenever two players have the same wins, set differential and
\* point differential, the one who won their match is ranked above the other.
C13_HeadToHeadBreaksTies ==
    resp.op = "details" =>
        \A g \in DOMAIN resp.rankings :
            GroupDecided(g) =>
                \A a, b \in Range(resp.rankings[g]) :
                    (/\ a # b
                     /\ sort_key(details_player_stats(matches, a))
                           = sort_key(details_player_stats(matches, b))
                     /\ BeatInGroup(a, b))
                    => PositionIn(resp.rankings[g], a) < PositionIn(resp.rankings[g], b)

\* the positions that have a Standing row
Positions == {standings[i].position : i \in 1..Len(standings)}

\* the tournament of scenario A: 4 players, no groups
ScenarioA == tournament.exists /\ tournament.num_groups = 0 /\ tournament.num_players = 4

\* C14: scenario A.  For 4 players and no groups the opening round has 2
\* rows; the Final, when it is created, pairs their two winners; no 3rd place
\* match ever exists; and the Standing rows are those of positions 1 and 2
\* only, both present once an advance has seen the decided Final.
C14_ScenarioA ==
    [][ ScenarioA' =>
          /\ Len(RowsOf(RoundOf(4)))' = 2
          /\ RowsOf(ThirdPlace)' = <<>>
          /\ (RowsOf(Final) = <<>> /\ RowsOf(Final)' # <<>>) =>
                /\ Len(RowsOf(Final)') = 1
                /\ Participants(RowsOf(Final)'[1])
                      = {RowsOf(RoundOf(4))[k].winner_id : k \in 1..2}
          /\ Positions' \subseteq {1, 2}
          /\ (/\ resp'.op = "advance"
              /\ RowsOf(Final)' # <<>>
              /\ \A k \in 1..Len(RowsOf(Final)') : RowsOf(Final)'[k].winner_id # None)
             => Positions' = {1, 2} ]_vars

\* group wins of player p in the decided group matches
GroupWins(p) ==
    Cardinality({i \in 1..Len(matches) :
        matches[i].stage = "group" /\ matches[i].winner_id = p})

\* the rows hold 2 players of each of the 2 groups, none with fewer group wins
\* than a member of its group left out
HoldsAdvancers(rows) ==
    \A g \in 0..1 :
        /\ Cardinality(Entrants(rows) \cap MembersOf(g)) = 2
        /\ \A p \in Entrants(rows) \cap MembersOf(g) :
              \A q \in MembersOf(g) \ Entrants(rows) : GroupWins(p) >= GroupWins(q)

ScenarioB ==
    /\ tournament.exists
    /\ tournament.num_groups = 2
    /\ tournament.num_players = 8
    /\ tournament.players_advance_per_group = 2

AllDecided(rows) == \A i \in 1..Len(rows) : rows[i].winner_id # None

\* C15: scenario B.  createTournament with 8 players, 2 groups, 2 advancing
\* creates 12 group matches; the submission that decides the last of them
\* leaves a "Round of 4" of 2 rows holding the 4 advancers; and once both
\* semifinals and the Final are decided, whatever the state of a 3rd place
\* match, Standing rows for positions 1 to 4 exist.
C15_ScenarioB ==
    [][ ScenarioB' =>
          /\ resp'.op = "create" =>
                /\ Len(matches') = 12
                /\ \A i \in 1..12 : matches'[i].stage = "group"
          /\ (/\ resp'.op = "submit"
              /\ AllDecided(SelectSeq(matches', LAMBDA m : m.stage = "group")))
             => /\ Len(RowsOf(RoundOf(4))') = 2
                /\ HoldsAdvancers(RowsOf(RoundOf(4)))'
          /\ (/\ resp'.op \in {"submit", "advance"}
              /\ Len(RowsOf(RoundOf(4))') = 2
              /\ AllDecided(RowsOf(RoundOf(4)))'
              /\ RowsOf(Final)' # <<>>
              /\ AllDecided(RowsOf(Final))')
             => Positions' = 1..4 ]_vars

\* the knockout rows
KnockoutRows == SelectSeq(matches, LAMBDA m : m.stage = "knockout")

\* C16: a bracket of 2.  When the knockout consists of a single decided
\* opening match between two players, an advance leaves exactly the Standing
\* rows of position 1 (its winner) and position 2 (its loser).
C16_BracketOfTwoFinalizes ==
    [][ (/\ resp'.op = "advance"
         /\ Len(KnockoutRows') = 1
         /\ KnockoutRows'[1].round = RoundOf(2)
         /\ KnockoutRows'[1].player2_id # None
         /\ KnockoutRows'[1].winner_id # None)
        => Range(standings')
              = {Standing(KnockoutRows'[1].winner_id, 1),
                 Standing(loser_of(KnockoutRows'[1]), 2)} ]_vars

\* C17: the seeder with at most one entrant.  createTournament without
\* groups for a single player adds no Match row and finalizes at once with
\* that player at position 1; for no player it adds no Match row and no
\* Standing row.
C17_WalkoverChampion ==
    [][ /\ CreateTournament(1, 0, 0) =>
              /\ matches' = <<>>
              /\ standings' = <<Standing(1, 1)>>
        /\ CreateTournament(0, 0, 0) =>
              /\ matches' = <<>>
              /\ standings' = <<>> ]_vars

\* C18: forceGenerateKnockout on a tournament that already has knockout
\* matches answers without error and changes no Match row.
C18_RegenerationIsNoOp ==
    [][ (resp'.op = "generate-ko" /\ KnockoutRows # <<>>)
           => (resp'.status = 200 /\ matches' = matches) ]_vars

\* C19: resetTournament, whatever the tournament's state, leaves no Match
\* row (with its set scores) and no Standing row from before the reset, and
\* the tournament's matches afterwards are exactly the fixtures that
\* createTournament generates for the stored configuration: every group
\* match undecided when there are groups, otherwise the opening knockout
\* round in which exactly the byes are decided.
InitialFixtures ==
    create_tournament(players, tournament.num_players, tournament.num_groups,
                      tournament.players_advance_per_group).rows

C19_ResetRestoresInitialFixtures ==
    [][ (resp'.op = "reset" /\ resp'.status = 200) =>
          /\ standings' = <<>>
          /\ \A i \in 1..Len(matches'), j \in 1..Len(matches) :
                 matches'[i].id # matches[j].id
          /\ matches' = AddAll(InitialFixtures, nextId)
          /\ \A i \in 1..Len(matches') :
                 /\ matches'[i].sets = <<>>
                 /\ IF tournament.num_groups > 0
                    THEN matches'[i].stage = "group" /\ matches'[i].winner_id = None
                    ELSE /\ matches'[i].stage = "knockout"
                         /\ matches'[i].round = RoundOf(next_power_of_two(tournament.num_players))
                         /\ (matches'[i].winner_id # None) <=> (matches'[i].player2_id = None) ]_vars

\* a reset of a four-player bracket that had reached its Final: rows 1..4
\* are gone, the two opening matches are back as rows 5 and 6, no standing
\* is left
C19_Witness ==
    /\ resp.op = "reset"
    /\ resp.status = 200
    /\ tournament.num_groups = 0
    /\ tournament.num_players = 4
    /\ standings = <<>>
    /\ [i \in 1..Len(matches) |-> matches[i].id] = <<5, 6>>

-----------------------------------------------------------------------------
(* matches.py: calculate_elo and the standalone submit_match that stores   *)
(* its result through int()                                                *)

MaxEloMatches == 2    \* standalone matches submitted per behaviour

\* 10 ** (r / 400) for r = 0..399, in units of 1/10000
Pow10Fraction ==
    <<
       10000, 10058, 10116, 10174, 10233, 10292, 10351, 10411, 10471, 10532,
       10593, 10654, 10715, 10777, 10839, 10902, 10965, 11028, 11092, 11156,
       11220, 11285, 11350, 11416, 11482, 11548, 11614, 11682, 11749, 11817,
       11885, 11954, 12023, 12092, 12162, 12232, 12303, 12374, 12445, 12517,
       12589, 12662, 12735, 12809, 12882, 12957, 13032, 13107, 13183, 13259,
       13335, 13412, 13490, 13568, 13646, 13725, 13804, 13884, 13964, 14044,
       14125, 14207, 14289, 14371, 14454, 14538, 14622, 14706, 14791, 14876,
       14962, 15049, 15136, 15223, 15311, 15399, 15488, 15578, 15668, 15758,
       15849, 15940, 16032, 16125, 16218, 16312, 16406, 16501, 16596, 16692,
       16788, 16885, 16982, 17080, 17179, 17278, 17378, 17478, 17579, 17681,
       17783, 17885, 17989, 18093, 18197, 18302, 18408, 18514, 18621, 18728,
       18836, 18945, 19055, 19165, 19275, 19387, 19498, 19611, 19724, 19838,
       19953, 20068, 20184, 20300, 20417, 20535, 20654, 20773, 20893, 21014,
       21135, 21257, 21380, 21503, 21627, 21752, 21878, 22004, 22131, 22259,
       22387, 22516, 22646, 22777, 22909, 23041, 23174, 23308, 23442, 23578,
       23714, 23851, 23988, 24127, 24266, 24406, 24547, 24689, 24831, 24975,
       25119, 25264, 25410, 25556, 25704, 25852, 26002, 26152, 26303, 26455,
       26607, 26761, 26915, 27071, 27227, 27384, 27542, 27701, 27861, 28022,
       28184, 28347, 28510, 28675, 28840, 29007, 29174, 29343, 29512, 29682,
       29854, 30026, 30200, 30374, 30549, 30726, 30903, 31081, 31261, 31441,
       31623, 31805, 31989, 32174, 32359, 32546, 32734, 32923, 33113, 33304,
       33497, 33690, 33884, 34080, 34277, 34475, 34674, 34874, 35075, 35278,
       35481, 35686, 35892, 36099, 36308, 36517, 36728, 36940, 37154, 37368,
       37584, 37801, 38019, 38238, 38459, 38681, 38905, 39129, 39355, 39582,
       39811, 40041, 40272, 40504, 40738, 40973, 41210, 41448, 41687, 41928,
       42170, 42413, 42658, 42904, 43152, 43401, 43652, 43904, 44157, 44412,
       44668, 44926, 45186, 45446, 45709, 45973, 46238, 46505, 46774, 47044,
       47315, 47588, 47863, 48139, 48417, 48697, 48978, 49261, 49545, 49831,
       50119, 50408, 50699, 50992, 51286, 51582, 51880, 52180, 52481, 52784,
       53088, 53395, 53703, 54013, 54325, 54639, 54954, 55271, 55590, 55911,
       56234, 56559, 56885, 57214, 57544, 57876, 58210, 58546, 58884, 59224,
       59566, 59910, 60256, 60604, 60954, 61306, 61660, 62015, 62373, 62734,
       63096, 63460, 63826, 64195, 64565, 64938, 65313, 65690, 66069, 66451,
       66834, 67220, 67608, 67999, 68391, 68786, 69183, 69582, 69984, 70388,
       70795, 71203, 71614, 72028, 72444, 72862, 73282, 73706, 74131, 74559,
       74989, 75422, 75858, 76296, 76736, 77179, 77625, 78073, 78524, 78977,
       79433, 79891, 80353, 80816, 81283, 81752, 82224, 82699, 83176, 83657,
       84140, 84625, 85114, 85605, 86099, 86596, 87096, 87599, 88105, 88614,
       89125, 89640, 90157, 90678, 91201, 91728, 92257, 92790, 93325, 93864,
       94406, 94951, 95499, 96051, 96605, 97163, 97724, 98288, 98855, 99426
    >>

RECURSIVE Pow10(_)
Pow10(n) == IF n = 0 THEN 1 ELSE 10 * Pow10(n - 1)

\* 10 ** (d / 400) as the fraction num / den: the integer part of the
\* exponent scales the tabulated value of its fractional part
pow10_400ths(d) ==
    LET n == d \div 400
        f == Pow10Fraction[(d % 400) + 1]
    IN  IF n >= 0 THEN [num |-> f * Pow10(n), den |-> 10000]
        ELSE [num |-> f, den |-> 10000 * Pow10(-n)]

\* K by the number of games played
k_factor(games_played) ==
    IF games_played <= 10 THEN 40
    ELSE IF games_played <= 200 THEN 24
    ELSE 16

\* old_rating + K * (outcome - expected_score), with
\* expected_score = 1 / (1 + p) = p.den / (p.den + p.num), kept as the
\* number whole + num / den
calculate_elo_outcome_inverted(old_rating, opponent_rating, outcome, games_played) ==
    LET p == pow10_400ths(opponent_rating - old_rating)
    IN  [whole |-> old_rating,
         num |-> k_factor(games_played) * (p.den - outcome * (p.den + p.num)),
         den |-> p.den + p.num]

calculate_elo(old_rating, opponent_rating, outcome, games_played) ==
    LET p == pow10_400ths(opponent_rating - old_rating)
    IN  [whole |-> old_rating,
         num |-> k_factor(games_played) * (outcome * (p.den + p.num) - p.den),
         den |-> p.den + p.num]

\* Python's int() of a float: truncation toward zero
int(x) ==
    LET floor == x.whole + (x.num \div x.den)
        ceil == x.whole - ((-x.num) \div x.den)
    IN  IF floor >= 0 THEN floor ELSE ceil

\* player.matches or 0
matches_or_0(m) == IF m = None THEN 0 ELSE m

\* submit_match: the two new ratings and the incremented match counts
submit_match(ps, player1_id, player2_id, winner_id) ==
    LET player1 == ps[player1_id]
        player2 == ps[player2_id]
        outcome1 == IF winner_id = player1_id THEN 1 ELSE 0
        outcome2 == 1 - outcome1
        new_rating1 == int(calculate_elo(player1.rating, player2.rating, outcome1,
                                         matches_or_0(player1.matches)))
        new_rating2 == int(calculate_elo(player2.rating, player1.rating, outcome2,
                                         matches_or_0(player2.matches)))
    IN  [ps EXCEPT ![player1_id] = [rating |-> new_rating1,
                                    matches |-> matches_or_0(player1.matches) + 1],
                   ![player2_id] = [rating |-> new_rating2,
                                    matches |-> matches_or_0(player2.matches) + 1]]

\* the two Player rows of the rated matches, and the ratings and match
\* counts they start with
EloPlayers == {1, 2}
EloRatings == {0, 10, 1500}
EloGaps == {-900, -400, -7, 0, 100, 400, 900}
EloGames == {None, 0, 10, 200, 201}

InitElo ==
    /\ \E r \in EloRatings, d \in EloGaps, g \in [EloPlayers -> EloGames] :
          players = [p \in EloPlayers |->
                        [rating |-> IF p = 1 THEN r ELSE r + d, matches |-> g[p]]]
    /\ InitRows

\* POST /matches: 400 unless both players exist and the winner is one of them
SubmitMatch ==
    /\ nunusual < MaxEloMatches
    /\ nunusual' = nunusual + 1
    /\ \E player1_id, player2_id, winner_id \in EloPlayers \cup {Ghost} :
          IF Cardinality({player1_id, player2_id} \cap DOMAIN players) < 2
             \/ winner_id \notin {player1_id, player2_id}
          THEN /\ resp' = [op |-> "match", status |-> 400]
               /\ UNCHANGED players
          ELSE /\ players' = submit_match(players, player1_id, player2_id, winner_id)
               /\ resp' = [op |-> "match", status |-> 200, winner_id |-> winner_id,
                           loser_id |-> IF winner_id = player1_id THEN player2_id
                                        ELSE player1_id]
    /\ UNCHANGED <<tournament, tplayers, matches, standings, nextId, handlers>>

NextElo == SubmitMatch

SpecElo == InitElo /\ [][NextElo]_vars

\* C20: Elo monotonicity.  Whatever the two ratings and the numbers of
\* matches played, the rating stored for the participant whose outcome is 1
\* is at least the old one and the rating stored for the participant whose
\* outcome is 0 is at most the old one.
C20_EloMonotone ==
    [][ (resp'.op = "match" /\ resp'.status = 200) =>
          /\ players'[resp'.winner_id].rating >= players[resp'.winner_id].rating
          /\ players'[resp'.loser_id].rating <= players[resp'.loser_id].rating ]_vars

\* a stored result of each kind: a loser whose new rating was truncated
\* toward zero from below zero, next to a winner whose rating rose
C20_Witness ==
    /\ resp.op = "match"
    /\ resp.status = 200
    /\ players[resp.loser_id].rating < 0
    /\ players[resp.winner_id].rating > 1

-----------------------------------------------------------------------------
(* Rated results of both kinds: standalone matches next to the matches of  *)
(* a knockout tournament                                                   *)

NextRated ==
    \/ \E n \in 2..MaxPlayers : CreateTournament(n, 0, 0)
    \/ SubmitRegular
    \/ SubmitMatch

SpecRated == Init /\ [][NextRated]_vars

\* the K-factor of the tiers: 40 up to 10 matches played, 24 up to 200, else 16
TieredK(played) == IF played <= 10 THEN 40 ELSE IF played <= 200 THEN 24 ELSE 16

\* the rating stored for a participant when K is TieredK of its own count
TieredRating(ps, p, opponent, outcome) ==
    LET e == pow10_400ths(ps[opponent].rating - ps[p].rating)
    IN  int([whole |-> ps[p].rating,
             num |-> TieredK(matches_or_0(ps[p].matches))
                        * (outcome * (e.den + e.num) - e.den),
             den |-> e.den + e.num])

\* C21: every rating update of a result submission, standalone or of a
\* tournament match, applies to each participant the K-factor of that
\* participant's own matches-played count before the match (40 / 24 / 16).
C21_StandaloneTieredK ==
    [][ (resp'.op = "match" /\ resp'.status = 200) =>
          /\ players'[resp'.winner_id].rating
                = TieredRating(players, resp'.winner_id, resp'.loser_id, 1)
          /\ players'[resp'.loser_id].rating
                = TieredRating(players, resp'.loser_id, resp'.winner_id, 0) ]_vars

C21_TournamentTieredK ==
    [][ \A i \in 1..Len(matches) : \A result \in Regular(matches[i]) :
           SubmitMatchResult(matches[i].id, result) =>
              \A p \in {result.player1_id, result.player2_id} :
                 players'[p].rating
                    = TieredRating(players, p,
                          IF p = result.player1_id THEN result.player2_id
                          ELSE result.player1_id,
                          IF p = result.winner_id THEN 1 ELSE 0) ]_vars

\* C21: every rating update, standalone or tournament, uses the K-factor
\* tier (40 / 24 / 16) of the participant's own matches-played count.
C21_TieredK == C21_StandaloneTieredK /\ C21_TournamentTieredK

-----------------------------------------------------------------------------
(* Claims about advance_knockout_rounds                                    *)

\* slots of a bracket round: 2 for the Final, n for "Round of n"
Slots(r) == IF r = Final THEN 2 ELSE r.n

BracketRows(ms) ==
    SelectSeq(ms, LAMBDA m : m.stage = "knockout" /\ m.round # ThirdPlace)

\* the rows of the latest knockout round: the existing round with the fewest
\* slots, the 3rd place match left aside
LatestRoundRows(ms) ==
    SelectSeq(BracketRows(ms), LAMBDA m :
        \A i \in 1..Len(BracketRows(ms)) : Slots(m.round) <= Slots(BracketRows(ms)[i].round))

\* C22: while a match of the latest knockout round is undecided, an advance
\* invocation creates no Match row and no Standing row.
C22_AdvanceWaitsForRound ==
    [][ (/\ resp'.op = "advance"
         /\ \E i \in 1..Len(LatestRoundRows(matches)) :
               LatestRoundRows(matches)[i].winner_id = None)
        => (matches' = matches /\ standings' = standings) ]_vars

\* an advance answered while one match of the latest round was decided and
\* another was not
C22_Witness ==
    /\ resp.op = "advance"
    /\ \E i, j \in 1..Len(LatestRoundRows(matches)) :
          /\ LatestRoundRows(matches)[i].winner_id = None
          /\ LatestRoundRows(matches)[j].winner_id # None
          /\ LatestRoundRows(matches)[j].player2_id # None

HasRound(ms, r) == \E i \in 1..Len(ms) : ms[i].round = r

\* C23: the advance invocation that creates the "3rd Place Match" stops
\* there: it creates no "Final" match and no Standing row.
C23_ThirdPlaceCreationStops ==
    [][ (/\ resp'.op = "advance"
         /\ ~HasRound(matches, ThirdPlace)
         /\ HasRound(matches', ThirdPlace))
        => (/\ Len(matches') = Len(matches) + 1
            /\ ~HasRound(matches', Final)
            /\ standings' = standings) ]_vars

RoundRows(ms, r) == SelectSeq(ms, LAMBDA m : m.round = r)

\* the participant of a decided match who is not its winner
OtherThanWinner(m) ==
    IF m.winner_id = m.player1_id THEN m.player2_id ELSE m.player1_id

PlayersAt(st, pos) ==
    {st[k].player_id : k \in {j \in 1..Len(st) : st[j].position = pos}}

\* C25: whenever advance writes Standing rows, position 1 is the winner of
\* the "Final" and position 2 its other participant; if a decided "3rd Place
\* Match" exists, position 3 is its winner and position 4 its loser; no
\* player holds two positions.
StandingsFromFinal ==
    (resp'.op = "advance" /\ standings' # standings) =>
      /\ Len(RoundRows(matches, Final)) = 1
      /\ RoundRows(matches, Final)[1].winner_id
            \in {RoundRows(matches, Final)[1].player1_id,
                 RoundRows(matches, Final)[1].player2_id}
      /\ PlayersAt(standings', 1) = {RoundRows(matches, Final)[1].winner_id}
      /\ PlayersAt(standings', 2) = {OtherThanWinner(RoundRows(matches, Final)[1])}
      /\ \A i \in 1..Len(matches) :
            (matches[i].round = ThirdPlace /\ matches[i].winner_id # None) =>
               /\ PlayersAt(standings', 3) = {matches[i].winner_id}
               /\ PlayersAt(standings', 4) = {OtherThanWinner(matches[i])}
      /\ \A j, k \in 1..Len(standings') :
            j # k => standings'[j].player_id # standings'[k].player_id

\* C25: every advance that writes standings takes the positions from the
\* Final and the 3rd place match, and no player holds two positions.
C25_StandingsFromFinal == [][StandingsFromFinal]_vars

\* the same, in behaviours whose submissions all carry the ids of the fixture
C25_StandingsFromFinalRegular == [][nunusual = 0 => StandingsFromFinal]_vars

-----------------------------------------------------------------------------
(* Brackets of up to MaxBracket players, every match decided once          *)

MaxBracket == 8

SubmitUndecided ==
    \E i \in 1..Len(matches) : \E result \in Regular(matches[i]) :
        /\ matches[i].winner_id = None
        /\ SubmitMatchResult(matches[i].id, result)

NextBracket ==
    \/ \E n \in 2..MaxBracket : CreateTournament(n, 0, 0)
    \/ SubmitUndecided
    \/ AdvanceKnockout

SpecBracket == Init /\ [][NextBracket]_vars

NextRoundLabel(w) == IF w = 2 THEN Final ELSE RoundOf(w)

\* C26: when the latest knockout round is fully decided with w >= 2 winners
\* and the next round ("Final" if w = 2, else "Round of w") does not exist,
\* advance creates exactly ceil(w/2) matches of that round, match i pairing
\* the winners of matches 2i-1 and 2i of the completed round in bracket
\* order, a lone last winner receiving a decided bye.
NextRoundCreated ==
    (/\ resp'.op = "advance"
     /\ Len(LatestRoundRows(matches)) >= 2
     /\ \A i \in 1..Len(LatestRoundRows(matches)) :
           LatestRoundRows(matches)[i].winner_id # None
     /\ ~HasRound(matches, NextRoundLabel(Len(LatestRoundRows(matches)))))
    => /\ Len(RoundRows(matches', NextRoundLabel(Len(LatestRoundRows(matches)))))
             = (Len(LatestRoundRows(matches)) + 1) \div 2
       /\ \A i \in 1..Len(RoundRows(matches', NextRoundLabel(Len(LatestRoundRows(matches))))) :
             /\ RoundRows(matches', NextRoundLabel(Len(LatestRoundRows(matches))))[i].player1_id
                   = LatestRoundRows(matches)[2 * i - 1].winner_id
             /\ IF 2 * i <= Len(LatestRoundRows(matches))
                THEN /\ RoundRows(matches', NextRoundLabel(Len(LatestRoundRows(matches))))[i].player2_id
                           = LatestRoundRows(matches)[2 * i].winner_id
                     /\ RoundRows(matches', NextRoundLabel(Len(LatestRoundRows(matches))))[i].winner_id
                           = None
                ELSE /\ RoundRows(matches', NextRoundLabel(Len(LatestRoundRows(matches))))[i].player2_id
                           = None
                     /\ RoundRows(matches', NextRoundLabel(Len(LatestRoundRows(matches))))[i].winner_id
                           = LatestRoundRows(matches)[2 * i - 1].winner_id

\* C26: every advance that creates a next round creates it from the winners
\* of the latest round: ceil(w/2) matches, named "Final" for two winners and
\* "Round of w" otherwise, paired in bracket order, a lone winner with a bye.
C26_NextRoundFromWinners == [][NextRoundCreated]_vars

-----------------------------------------------------------------------------
(* Seeding of the opening knockout round: at creation without groups, and  *)
(* by generate-ko during or after the group stage                          *)

MaxSeeded == 7        \* roster sizes of the tournaments whose group stage is played out
MaxSeedGroups == 3    \* their group counts
MaxSeedAdvance == 4   \* their players advancing per group
MaxSeedGroupSize == 4 \* their players per group, on average

CreateSeeded ==
    \/ \E n \in 1..MaxSeeded : CreateTournament(n, 0, 0)
    \/ \E g \in 1..MaxSeedGroups, a \in 1..MaxSeedAdvance :
       \E n \in 1..Min(MaxSeeded, g * MaxSeedGroupSize) :
          CreateTournament(n, g, a)

\* the group results arrive in fixture order, one per match
SubmitGroupResult ==
    \E i \in Undecided : \E result \in Regular(matches[i]) :
        /\ matches[i].stage = "group"
        /\ \A j \in Undecided : i <= j
        /\ SubmitMatchResult(matches[i].id, result)

\* the operator calls generate-ko while no knockout match exists, whether or
\* not the group stage is decided
GenerateFirstKnockout ==
    /\ \A i \in 1..Len(matches) : matches[i].stage = "group"
    /\ ForceGenerateKnockout

NextSeed ==
    \/ CreateSeeded
    \/ SubmitGroupResult
    \/ GenerateFirstKnockout

SpecSeed == Init /\ [][NextSeed]_vars

\* players_advancing as the generator of tournament t orders it
SeededList(t, ps, tps, ms) ==
    IF t.num_groups = 0
    THEN sorted([i \in 1..Len(tps) |-> tps[i].player_id],
                [pid \in {tps[i].player_id : i \in 1..Len(tps)} |-> <<-rating_of(ps, pid)>>])
    ELSE tiers_from(group_rankings(tps, ms), GroupList(tps, 0), ms,
                    t.players_advance_per_group, 0)

\* the rows a step adds
NewRows == SubSeq(matches', Len(matches) + 1, Len(matches'))

\* the step generated an opening knockout round
OpeningRoundGenerated ==
    /\ resp'.op \in {"create", "generate-ko"}
    /\ resp'.status = 200
    /\ NewRows # <<>>
    /\ NewRows[1].stage = "knockout"

Byes(rows) == {rows[i].player1_id : i \in {j \in 1..Len(rows) : rows[j].player2_id = None}}

\* C27: whenever the bracket is larger than the number n of seeded players
\* (byes = koSize - n > 0), without groups and with groups (after the clash
\* swaps), the players given an opening-round bye are exactly the first
\* `byes` players of the seeded list, and no bracket pair is empty.
ByesToTopSeeds ==
    \E seeded \in {SeededList(tournament', players, tplayers', matches)} :
       (OpeningRoundGenerated /\ ko_size_of(Len(seeded)) > Len(seeded))
       => /\ Byes(NewRows) = {seeded[k] : k \in 1..(ko_size_of(Len(seeded)) - Len(seeded))}
          /\ 2 * Len(NewRows) = ko_size_of(Len(seeded))

\* C27: in every generated opening round with byes, the bye recipients are
\* exactly the top seeds of the seeded list and no pair is empty.
C27_ByesToTopSeeds == [][ByesToTopSeeds]_vars

\* the same for tournaments without groups
C27_ByesToTopSeedsWithoutGroups ==
    [][tournament'.num_groups = 0 => ByesToTopSeeds]_vars

\* C28: without groups and with a full bracket (n = koSize >= 2), the opening
\* round pairs seed k with seed koSize + 1 - k for every k, the seeds being
\* the players by descending rating.
TopMeetsBottom ==
    \E seeded \in {SeededList(tournament', players, tplayers', matches)} :
       (/\ OpeningRoundGenerated
        /\ tournament'.num_groups = 0
        /\ Len(seeded) >= 2
        /\ ko_size_of(Len(seeded)) = Len(seeded))
       => \A k \in 1..Len(seeded) : \E i \in 1..Len(NewRows) :
             {NewRows[i].player1_id, NewRows[i].player2_id}
                = {seeded[k], seeded[Len(seeded) + 1 - k]}

\* C28: every opening round of a full bracket without groups pairs seed k
\* with seed koSize + 1 - k.
C28_TopMeetsBottom == [][TopMeetsBottom]_vars

PlayersIn(rows) ==
    UNION {{rows[i].player1_id, rows[i].player2_id} \ {None} : i \in 1..Len(rows)}

Clash(tps, m) == m.player2_id # None /\ same_group(tps, m.player1_id, m.player2_id)

\* m matches can be made of players of S, no player twice, none between two
\* players of one group
RECURSIVE CrossPairs(_, _, _)
CrossPairs(tps, S, m) ==
    \/ m = 0
    \/ \E p \in S : \E q \in S :
          /\ p < q
          /\ ~same_group(tps, p, q)
          /\ CrossPairs(tps, S \ {p, q}, m - 1)

\* some way of placing the same players on the filled slots of these rows
\* gives no match between two players of one group
ClashFreeExists(tps, rows) ==
    CrossPairs(tps, PlayersIn(rows),
               Cardinality({i \in 1..Len(rows) : rows[i].player2_id # None}))

\* C29: in the group path, whenever some assignment of the advancing players
\* to the opening-round slots has no match between two players of one group,
\* the generated opening round has none; when there is no such assignment,
\* the generated opening round is the seeded arrangement with no slot swapped.
ClashAvoided ==
    (OpeningRoundGenerated /\ tournament'.num_groups > 0) =>
       IF ClashFreeExists(tplayers, NewRows)
       THEN \A i \in 1..Len(NewRows) : ~Clash(tplayers, NewRows[i])
       ELSE NewRows
               = AddAll(seed_players(tplayers,
                            SeededList(tournament, players, tplayers, matches),
                            FALSE).rows, nextId)

Unswapped(t, ps, tps, ms) == seed_players(tps, SeededList(t, ps, tps, ms), FALSE).rows

\* C29 (amended): the group path's opening round holds the players and the
\* byes of the seeded arrangement; a match between two players of one group
\* remains in it only where every player of the later pairs belongs to that
\* group too, also when another assignment would have been clash-free; when
\* no clash-free assignment exists, it is the seeded arrangement with no
\* slot swapped.
ClashBestEffort ==
    (OpeningRoundGenerated /\ tournament'.num_groups > 0) =>
       \E seeded \in {Unswapped(tournament, players, tplayers, matches)} :
          /\ Len(NewRows) = Len(seeded)
          /\ PlayersIn(NewRows) = PlayersIn(seeded)
          /\ \A i \in 1..Len(NewRows) :
                (NewRows[i].player2_id = None) <=> (seeded[i].player2_id = None)
          /\ \A i \in 1..Len(NewRows) :
                Clash(tplayers, NewRows[i]) =>
                   \A k \in (i + 1)..Len(NewRows) : \A p \in PlayersIn(<<NewRows[k]>>) :
                      same_group(tplayers, NewRows[i].player1_id, p)
          /\ ~ClashFreeExists(tplayers, NewRows) => NewRows = AddAll(seeded, nextId)

RECURSIVE RankingsOf(_, _, _)
RankingsOf(tps, ms, groups) ==
    IF groups = <<>> THEN <<>>
    ELSE <<group_ranking(tps, ms, Head(groups))>> \o RankingsOf(tps, ms, Tail(groups))

\* the places of the players of L in their groups' rankings (1 for a
\* 1st-place finisher), in the order of L
RECURSIVE PlacesOf(_, _)
PlacesOf(rankings, L) ==
    IF L = <<>> THEN <<>>
    ELSE <<PositionIn(rankings[CHOOSE k \in 1..Len(rankings) :
                                  Head(L) \in Range(rankings[k])], Head(L))>>
         \o PlacesOf(rankings, Tail(L))

\* the sort_key of the players of L, in the order of L
RECURSIVE KeysOf(_, _)
KeysOf(ms, L) ==
    IF L = <<>> THEN <<>>
    ELSE <<sort_key(player_stats(ms, Head(L)))>> \o KeysOf(ms, Tail(L))

\* the seeded list L of a group tournament, place[i] the place of L[i] in its
\* group and key[i] its sort_key: each group's first min(advance, size)
\* finishers, once each; a lower place never after a higher one; players of
\* one place in ascending sort_key order, that is by (wins, set differential,
\* point differential), best first
TierOrdered(tps, advance, L, place, key) ==
    /\ \A i, j \in 1..Len(L) : i < j => L[i] # L[j]
    /\ \A g \in GroupNumbers(tps) :
          Cardinality({i \in 1..Len(L) : group_of(tps, L[i]) = g})
             = Min(advance, Len(GroupMembers(tps, g)))
    /\ \A i \in 1..Len(L) : place[i] \in 1..advance
    /\ \A i, j \in 1..Len(L) :
          i < j =>
             /\ place[i] <= place[j]
             /\ place[i] = place[j] => ~tuple_less(key[j], key[i])

\* C30: in the group path the seeded list is ordered by rank tier, every
\* group's 1st-place finisher above every 2nd-place finisher and so on up to
\* players_advance_per_group, players of one tier ordered by (wins, set
\* differential, point differential), and each group contributes exactly
\* min(players_advance_per_group, group size) players; the generated opening
\* round holds the players of that list.
SeededByTier ==
    (OpeningRoundGenerated /\ tournament'.num_groups > 0) =>
       \E L \in {SeededList(tournament, players, tplayers, matches)} :
          \E rankings \in {RankingsOf(tplayers, matches, GroupList(tplayers, 0))} :
             \E key \in {KeysOf(matches, L)} :
                /\ TierOrdered(tplayers, tournament.players_advance_per_group,
                               L, PlacesOf(rankings, L), key)
                /\ PlayersIn(NewRows) = Range(L)

\* C30: every opening round of the group path is generated from a seeded
\* list ordered by rank tier and, inside a tier, by (wins, set differential,
\* point differential), with min(players_advance_per_group, group size)
\* players of each group.
C30_SeededByTier == [][SeededByTier]_vars

\* the seeded list L has a player of a lower place with a better sort_key
\* than a player above them, and a tier that is not in group order
TiersMatter(tps, L, place, key) ==
    /\ \E i, j \in 1..Len(L) :
          i < j /\ place[i] < place[j] /\ tuple_less(key[j], key[i])
    /\ \E i, j \in 1..Len(L) :
          i < j /\ place[i] = place[j] /\ group_of(tps, L[i]) > group_of(tps, L[j])

\* a knockout stage was generated from such a seeded list
C30_Witness ==
    /\ resp.op = "generate-ko"
    /\ resp.status = 200
    /\ tournament.num_groups > 0
    /\ \E L \in {SeededList(tournament, players, tplayers, matches)} :
          \E rankings \in {RankingsOf(tplayers, matches, GroupList(tplayers, 0))} :
             \E key \in {KeysOf(matches, L)} :
                TiersMatter(tplayers, L, PlacesOf(rankings, L), key)

----------------------------------------------------------------------------
(* Claims about the reported ranking, the seeder's trigger and the frames  *)

\* C31: in the rankings of a details response, head-to-head acts only between
\* players tied on the whole sort key: a group member whose key (-wins,
\* -(set differential), -(point differential)) is strictly smaller than
\* another member's is ranked above that member.
C31_KeyOrderKept ==
    resp.op = "details" =>
        \A g \in DOMAIN resp.rankings :
            \A a, b \in Range(resp.rankings[g]) :
                tuple_less(sort_key(details_player_stats(matches, a)),
                           sort_key(details_player_stats(matches, b)))
                => PositionIn(resp.rankings[g], a) < PositionIn(resp.rankings[g], b)

\* every group row of ms is decided
AllGroupDecided(ms) ==
    \A i \in 1..Len(ms) : ms[i].stage = "group" => ms[i].winner_id # None

KnockoutOf(ms) == SelectSeq(ms, LAMBDA m : m.stage = "knockout")

\* one step of a tournament with groups: knockout rows exist only with every
\* group row decided; the submission that decides the last undecided group
\* row creates the opening knockout round; a submission made when knockout
\* rows exist adds none
GroupCompletionSeedsKnockout ==
    (tournament.exists /\ tournament'.exists /\ tournament'.num_groups > 0) =>
       /\ KnockoutOf(matches') # <<>> => AllGroupDecided(matches')
       /\ (resp'.op = "submit" /\ ~AllGroupDecided(matches) /\ AllGroupDecided(matches'))
             => (KnockoutOf(matches) = <<>> /\ KnockoutOf(matches') # <<>>)
       /\ (resp'.op = "submit" /\ KnockoutOf(matches) # <<>>)
             => KnockoutOf(matches') = KnockoutOf(matches)

\* C32: for a tournament with groups, under createTournament and
\* submitMatchResult, knockout matches exist only if every group match is
\* decided, the submission that decides the last group match creates the
\* opening knockout round, and no later submission creates it again.
C32_GroupCompletionSeedsKnockout == [][GroupCompletionSeedsKnockout]_vars

----------------------------------------------------------------------------
(* Two concurrent submit_tournament_match_result handlers on the last two  *)
(* undecided group matches of one tournament                               *)

MaxRaceGroupSize == 4     \* players per group of the tournaments in the race

\* the group rows no result was written for
UndecidedGroupRows == {i \in Undecided : matches[i].stage = "group"}

\* the handlers between their two commits
InFlight == {h \in Handlers : handlers[h].pc = "written"}

\* an earlier group result, submitted alone and in fixture order while more
\* than two group rows are undecided
SubmitEarlierGroupResult ==
    /\ \A h \in Handlers : handlers[h].pc = "idle"
    /\ Cardinality(UndecidedGroupRows) > 2
    /\ SubmitGroupResult

\* lines 858-902 for one of the last two undecided group rows: read the
\* match, write the result, commit
GroupHandlerWrite(h) ==
    /\ tournament.exists
    /\ handlers[h].pc = "idle"
    /\ Cardinality(UndecidedGroupRows) + Cardinality(InFlight) = 2
    /\ \E i \in UndecidedGroupRows : \E result \in Regular(matches[i]) :
          /\ matches' = write_result(matches, matches[i].id, result)
          /\ handlers' = [handlers EXCEPT ![h] =
                 [pc |-> "written", match_id |-> matches[i].id,
                  result |-> result, status |-> 0]]
    /\ UNCHANGED <<players, tournament, tplayers, standings, nextId, resp, nunusual>>

NextGroupRace ==
    \/ \E g \in 1..MaxPlayGroups, a \in 1..2 :
       \E n \in 3..(g * MaxRaceGroupSize) : CreateTournament(n, g, a)
    \/ SubmitEarlierGroupResult
    \/ \E h \in Handlers : GroupHandlerWrite(h)
    \/ \E h \in Handlers : HandlerFinish(h)

SpecGroupRace == Init /\ [][NextGroupRace]_vars

\* both handlers have returned and every group row is decided
RaceOver ==
    /\ \A h \in Handlers : handlers[h].pc = "done"
    /\ AllGroupDecided(matches)

\* C33: when two concurrent submissions have decided the last two undecided
\* group matches, the opening knockout round has been generated exactly once:
\* its rows are there, each once.
C33_OpeningRoundOnce ==
    RaceOver =>
       Len(KnockoutOf(matches))
          = Len(generate_knockout_stage_matches(tournament, players, tplayers,
                                                matches).rows)

\* the first n elements of s, all of s when it is shorter
Top(s, n) == SubSeq(s, 1, Min(n, Len(s)))

\* C34: for a complete group stage, the players the seeder takes from a group
\* (the first players_advance_per_group of its own ranking) are the first
\* players_advance_per_group of the ranking of the details response, in the
\* same order.
C34_RankingsAgree ==
    (resp.op = "details" /\ AllGroupDecided(matches)) =>
        \A g \in DOMAIN resp.rankings :
            Top(group_ranking(tplayers, matches, g), tournament.players_advance_per_group)
               = Top(resp.rankings[g], tournament.players_advance_per_group)

\* the rows of the bracket round that precedes the round of m: the existing
\* round with the fewest slots among those with more slots than m's
PrecedingRoundRows(ms, m) ==
    SelectSeq(BracketRows(ms), LAMBDA x :
        /\ Slots(x.round) > Slots(m.round)
        /\ \A i \in 1..Len(BracketRows(ms)) :
              Slots(BracketRows(ms)[i].round) > Slots(m.round)
                 => Slots(x.round) <= Slots(BracketRows(ms)[i].round))

WinnersOf(rows) == {rows[i].winner_id : i \in 1..Len(rows)} \ {None}

\* each participant of a bracket match after the opening round is the
\* recorded winner of a match of the preceding round, and each holder of
\* position 1 is the recorded winner of the Final
BracketLineage ==
    /\ \A i \in 1..Len(BracketRows(matches)) :
          PrecedingRoundRows(matches, BracketRows(matches)[i]) # <<>> =>
             Participants(BracketRows(matches)[i])
                \subseteq WinnersOf(PrecedingRoundRows(matches, BracketRows(matches)[i]))
    /\ \A k \in 1..Len(standings) :
          standings[k].position = 1 =>
             standings[k].player_id \in WinnersOf(RoundRows(matches, Final))

\* C35: in every state reached by create, submit (a result re-submitted with
\* a different winner for a decided match included) and advance, the bracket
\* lineage holds; the submissions carry the player ids of their fixtures.
C35_BracketLineage == nunusual = 0 => BracketLineage

----------------------------------------------------------------------------
(* Submissions whose request names another player of the roster            *)

\* request bodies for fixture m that replace its second player, or its first,
\* by another player of the roster; the winner is the player who stays
Foreign(m) ==
    IF m.player2_id = None THEN {}
    ELSE {Payload(m.player1_id, o, m.player1_id) : o \in Roster \ Participants(m)}
         \cup {Payload(o, m.player2_id, m.player2_id) : o \in Roster \ Participants(m)}

SubmitForeign ==
    /\ nunusual < MaxUnusual
    /\ nunusual' = nunusual + 1
    /\ tournament.exists
    /\ \E i \in 1..Len(matches) : \E result \in Foreign(matches[i]) :
       \E r \in {submit_tournament_match_result(players, matches, matches[i].id, result)} :
          /\ matches' = r.matches
          /\ resp' = [op |-> "submit", status |-> r.status]
    /\ UNCHANGED <<players, tournament, tplayers, standings, nextId, handlers>>

\* create without groups, submit with the fixture's ids or with another
\* player's, advance
NextForeign ==
    \/ \E n \in 2..MaxPlayers : CreateTournament(n, 0, 0)
    \/ SubmitRegular
    \/ SubmitForeign
    \/ AdvanceKnockout

SpecForeign == Init /\ [][NextForeign]_vars

\* no player is a participant of two different knockout rows of one round
NoPlayerTwiceInRound(ms) ==
    \A i, j \in 1..Len(ms) :
        (i # j /\ ms[i].stage = "knockout" /\ ms[j].stage = "knockout"
              /\ ms[i].round = ms[j].round)
           => Participants(ms[i]) \cap Participants(ms[j]) = {}

\* the number of filled slots of these rows
RECURSIVE FilledSlots(_)
FilledSlots(rows) ==
    IF rows = <<>> THEN 0
    ELSE (IF Head(rows).player1_id # None THEN 1 ELSE 0)
         + (IF Head(rows).player2_id # None THEN 1 ELSE 0)
         + FilledSlots(Tail(rows))

\* a generated opening round holds every player of the seeded list, once
OpeningHoldsEveryPlayerOnce ==
    OpeningRoundGenerated =>
       \E seeded \in {SeededList(tournament', players, tplayers', matches)} :
          /\ PlayersIn(NewRows) = Range(seeded)
          /\ FilledSlots(NewRows) = Len(seeded)

PlayersOncePerRound ==
    /\ NoPlayerTwiceInRound(matches')
    /\ OpeningHoldsEveryPlayerOnce

\* C36: in every state reached by create, submit and advance no player is a
\* participant of two different matches of one knockout round, and every
\* generated opening round contains every advancing player exactly once.
C36_PlayersOncePerRound == [][PlayersOncePerRound]_vars

\* the same, while every submission carries the player ids of its fixture
C36_PlayersOncePerRoundRegular == [][nunusual' = 0 => PlayersOncePerRound]_vars

----------------------------------------------------------------------------
(* A bracket played to its end: every undecided match receives a result    *)
(* and the advancement is triggered again and again                        *)

CreateBracket == \E n \in 3..MaxBracket : CreateTournament(n, 0, 0)

NextProgress == CreateBracket \/ SubmitUndecided \/ AdvanceKnockout

\* the results keep coming and the advancement keeps being triggered
SpecProgress ==
    /\ Init
    /\ [][NextProgress]_vars
    /\ WF_vars(SubmitUndecided)
    /\ WF_vars(AdvanceKnockout)

HasChampion == \E k \in 1..Len(standings) : standings[k].position = 1

\* a created tournament eventually has a Standing row for position 1
EventuallyFinalized == tournament.exists ~> HasChampion

\* when it has one, koSize - 1 bracket matches exist (byes included, the 3rd
\* place match excluded)
FinalizedAfterWholeBracket ==
    [](HasChampion =>
          Len(BracketRows(matches)) = ko_size_of(Len(tplayers)) - 1)

\* no invocation answers with an error
NoInvocationFails == [](resp.op # "none" => resp.status = 200)

\* C37: a tournament without groups and with 3..8 players whose undecided
\* matches all receive a result, with the advancement triggered after each,
\* eventually has a Standing row for position 1, after exactly koSize - 1
\* bracket matches have existed, and no invocation raises an error on the way.
C37_ProgressToFinalization ==
    EventuallyFinalized /\ FinalizedAfterWholeBracket /\ NoInvocationFails

\* the same, the error answers left aside
C37_ProgressDespiteErrors == EventuallyFinalized /\ FinalizedAfterWholeBracket

\* C38: in every reachable state, if any Standing row exists then rows for
\* positions 1 and 2 exist: the "any Standing row" guard of the advancement
\* and "position 1 exists" agree.
C38_StandingsStartAtTheTop == standings # <<>> => {1, 2} \subseteq Positions

\* an advance has written the standings of a bracket with a 3rd place
C38_Witness == resp.op = "advance" /\ 3 \in Positions

\* what a fixture is: its id, its two players, its round label and its stage
Identity(m) ==
    [id |-> m.id, player1_id |-> m.player1_id, player2_id |-> m.player2_id,
     round |-> m.round, stage |-> m.stage]

\* C39: submitMatchResult leaves the identity of every fixture unchanged,
\* whatever player ids the request carries; only winner, aggregate score and
\* set scores change.
C39_SubmitKeepsFixture ==
    [][ resp'.op = "submit" =>
          /\ Len(matches') = Len(matches)
          /\ \A i \in 1..Len(matches) : Identity(matches'[i]) = Identity(matches[i]) ]_vars

\* the same for the submissions that carry the player ids of their fixture
C39_RegularSubmitKeepsFixture ==
    [][ (resp'.op = "submit" /\ nunusual' = 0) =>
          /\ Len(matches') = Len(matches)
          /\ \A i \in 1..Len(matches) : Identity(matches'[i]) = Identity(matches[i]) ]_vars

----------------------------------------------------------------------------
(* Resets, one after another, of tournaments whose players' ratings are    *)
(* moved by standalone matches                                             *)

MaxResets == 3        \* unusual operations per behaviour, resets among them

\* a reset that deletes the TournamentPlayer rows as well
ResetRepeatedDroppingRoster ==
    /\ tournament.exists
    /\ nunusual < MaxResets
    /\ nunusual' = nunusual + 1
    /\ \E r \in {reset_tournament(tournament, players, tplayers)} :
           IF r.ok
           THEN /\ matches' = AddAll(r.rows, nextId)
                /\ nextId' = nextId + Len(r.rows)
                /\ standings' = <<>>
                /\ tplayers' = <<>>
                /\ resp' = [op |-> "reset", status |-> 200]
           ELSE /\ UNCHANGED <<matches, nextId, standings, tplayers>>
                /\ resp' = [op |-> "reset", status |-> 500]
    /\ UNCHANGED <<players, tournament, handlers>>

\* reset_tournament, as often as the budget allows
ResetRepeated ==
    /\ tournament.exists
    /\ nunusual < MaxResets
    /\ nunusual' = nunusual + 1
    /\ \E r \in {reset_tournament(tournament, players, tplayers)} :
           IF r.ok
           THEN /\ matches' = AddAll(r.rows, nextId)
                /\ nextId' = nextId + Len(r.rows)
                /\ standings' = <<>>
                /\ resp' = [op |-> "reset", status |-> 200]
           ELSE /\ UNCHANGED <<matches, nextId, standings>>
                /\ resp' = [op |-> "reset", status |-> 500]
    /\ UNCHANGED <<players, tournament, tplayers, handlers>>

NextReset ==
    \/ CreatePlayed
    \/ SubmitRegular
    \/ AdvanceKnockout
    \/ SubmitMatch
    \/ ResetRepeated

SpecReset == Init /\ [][NextReset]_vars

\* the rows without their ids
Fixtures(ms) == [i \in 1..Len(ms) |-> [ms[i] EXCEPT !.id = None]]

\* a reset step leaves the Player rows, the TournamentPlayer rows and the
\* stored configuration as they were; following a reset at once, it leaves
\* the fixtures as they were, under new ids
ResetFrame ==
    (resp'.op = "reset" /\ nunusual' = nunusual + 1) =>
       /\ players' = players
       /\ tplayers' = tplayers
       /\ tournament' = tournament
       /\ (resp.op = "reset" /\ resp.status = 200) =>
             /\ resp'.status = 200
             /\ Fixtures(matches') = Fixtures(matches)
             /\ standings' = <<>>

====
